---- MODULE Spec2Model ----
(***************************************************************************)
(* A model of the pygraham functional toolkit: the LazySequence pipeline   *)
(* of lazy.py (iterators as heap objects with a shared cursor), the        *)
(* Either and Maybe containers, the copy-on-write ImmutableList and       *)
(* ImmutableDict, the pattern dispatcher of pattern.py, and the function   *)
(* combinators of compose.py (compose, pipe, curry, memoize) with the lazy  *)
(* decorator of lazy.py.                                                   *)
(***************************************************************************)
EXTENDS Integers, Sequences, FiniteSets, TLC

\* Bounds of the model.
MaxLen == 2        \* longest range() source
MaxN == 1          \* largest count given to take / drop
MaxSeqs == 3       \* LazySequence objects alive in one run
CountCap == 3      \* largest value an infinite() source is pulled to

MaxStages == 2     \* LazySequence objects in a run of the deferred transformations
MaxChain == 3      \* calls chained on one Either / Maybe value
MaxCases == 3      \* cases given to one match
MaxObjs == 3       \* ImmutableList / ImmutableDict objects alive in one run
MaxWrappers == 2   \* wrappers memoize makes from one function
MaxCalls == 4      \* invocations of the memoized function in one run
MaxCurry == 3      \* calls made on the closures of one curried function
MaxFns == 3        \* functions given to compose / pipe
MaxChunk == 2      \* largest chunk size
MaxBack == 3       \* an infinite source starts at -MaxBack or later
MaxPick == 3       \* largest n of take over a filtered infinite source
MaxTake == 3       \* largest n given to ImmutableList.take / drop

VARIABLES
    its, seqs, prev, last,          \* lazy.py: iterator heap, LazySequence objects, last call
    either, eprev, ecall, ecalls,   \* either.py: the value a chain has reached, last call
    maybe, mprev, mcall,            \* maybe.py: the value a chain has reached, last call
    mvalue, mcases, mdefault, mout, \* pattern.py: a Match object, last call
    lists, ils, dicts, ids,         \* immutable.py: list and dict cells, the objects' _items
    born, dborn, icall,             \* immutable.py: each cell's first contents, last call
    cache, cprev, minv, mlast,      \* compose.py: memoize wrappers' caches, last call
    parts, pborn, chain, clog,      \* compose.py: curry's closures, the calls made on them
    cfuns, cx, cout,                \* compose.py: functions given to compose / pipe, last call
    lcache, lcprev, linv, llast,    \* lazy.py: the lazy decorator's wrappers, last call
    lruns                           \* lazy.py: invocations of the decorated function so far

lazyVars == <<its, seqs, prev, last>>
eitherVars == <<either, eprev, ecall, ecalls>>
maybeVars == <<maybe, mprev, mcall>>
matchVars == <<mvalue, mcases, mdefault, mout>>
immVars == <<lists, ils, dicts, ids, born, dborn, icall>>
memoVars == <<cache, cprev, minv, mlast>>
curryVars == <<parts, pborn, chain, clog>>
composeVars == <<cfuns, cx, cout>>
fnVars == <<memoVars, curryVars, composeVars>>
onceVars == <<lcache, lcprev, linv, llast, lruns>>
vars == <<lazyVars, eitherVars, maybeVars, matchVars, immVars, fnVars, onceVars>>
notLazy == <<eitherVars, maybeVars, matchVars, immVars, fnVars, onceVars>>
notEither == <<lazyVars, maybeVars, matchVars, immVars, fnVars, onceVars>>
notMaybe == <<lazyVars, eitherVars, matchVars, immVars, fnVars, onceVars>>
notMatch == <<lazyVars, eitherVars, maybeVars, immVars, fnVars, onceVars>>
notImm == <<lazyVars, eitherVars, maybeVars, matchVars, fnVars, onceVars>>
notFn == <<lazyVars, eitherVars, maybeVars, matchVars, immVars, onceVars>>
notOnce == <<lazyVars, eitherVars, maybeVars, matchVars, immVars, fnVars>>

Min(a, b) == IF a < b THEN a ELSE b
Max(a, b) == IF a > b THEN a ELSE b

(***************************************************************************)
(* lazy.py: the heap of iterator objects.  its[i] is one Python iterator:  *)
(* a list/range iterator, the infinite() generator, an islice, or one of   *)
(* the generators the transformation methods build.  seqs[s] is the        *)
(* _iterator field of the s-th LazySequence object.                        *)
(*   pos    list iterator: elements already handed out; count: `current`   *)
(*   n      islice: elements it may still yield; chunk: size               *)
(*   buf    flat_map: the rest of the result being yielded from            *)
(*   st     generator state: "new", "run", "done" (scan: "new" until       *)
(*          `initial` was yielded; drop_while: "new" while `dropping`)     *)
(*   calls  how often the node invoked its fn / predicate   (observation)  *)
(*   outs   how many elements the node has yielded          (observation)  *)
(***************************************************************************)
Node(kind, up, up2, fn, n, items, pos, acc) ==
    [kind |-> kind, up |-> up, up2 |-> up2, fn |-> fn, n |-> n,
     items |-> items, pos |-> pos, acc |-> acc, buf |-> <<>>,
     st |-> "new", calls |-> 0, outs |-> 0]

RangeList(a, b) == [i \in 1..Max(b - a, 0) |-> a + i - 1]

\* The element functions and predicates handed to the pipeline.
MapFns == {"dbl", "inc"}
Preds == {"even", "small"}
FlatFns == {"pair", "self", "str"}

ApplyFn(f, x) == IF f = "dbl" THEN x * 2 ELSE x + 1
ApplyPred(p, x) == IF p = "even" THEN x % 2 = 0 ELSE x < 2
\* fn(item) of flat_map: a list [x, 10x], the scalar x, or a two-character
\* string.  iter: the result has __iter__; str: it is a str; vals: what
\* iterating it gives; whole: the result as one element.  A string is
\* written 100 + x and its characters 200 + x.
FlatResult(f, x) ==
    IF f = "pair" THEN [iter |-> TRUE, str |-> FALSE, vals |-> <<x, x * 10>>, whole |-> 0]
    ELSE IF f = "str"
    THEN [iter |-> TRUE, str |-> TRUE, vals |-> <<200 + x, 200 + x>>, whole |-> 100 + x]
    ELSE [iter |-> FALSE, str |-> FALSE, vals |-> <<>>, whole |-> x]
\* The two-argument functions: addition, and 10a + b, which tells its
\* arguments apart.
Apply2(f, a, b) == IF f = "cat" THEN a * 10 + b ELSE a + b

\* Outcomes of next(iterator): an element, StopIteration, or the run left
\* the part of an infinite source the model covers.
Yield(h, id, v) == [h |-> [h EXCEPT ![id].outs = @ + 1], st |-> "val", v |-> v]
Stop(h) == [h |-> h, st |-> "stop", v |-> 0]
Cap(h) == [h |-> h, st |-> "cap", v |-> 0]
\* The generator's for loop ended: the generator returns.
Finish(r, id) ==
    IF r.st = "stop" THEN Stop([r.h EXCEPT ![id].st = "done"]) ELSE Cap(r.h)
Called(h, id) == [h EXCEPT ![id].calls = @ + 1]

RECURSIVE Pull(_, _)
RECURSIVE PullN(_, _, _)

\* list(islice(it, k)): at most k elements of node id.
PullN(h, id, k) ==
    IF k <= 0 THEN [h |-> h, st |-> "ok", vs |-> <<>>]
    ELSE LET r == Pull(h, id) IN
         IF r.st = "val"
         THEN LET d == PullN(r.h, id, k - 1) IN
              [h |-> d.h, st |-> d.st, vs |-> <<r.v>> \o d.vs]
         ELSE [h |-> r.h, st |-> IF r.st = "cap" THEN "cap" ELSE "ok", vs |-> <<>>]

ListNext(h, id) ==
    LET nd == h[id] IN
    IF nd.pos < Len(nd.items)
    THEN Yield([h EXCEPT ![id].pos = nd.pos + 1], id, nd.items[nd.pos + 1])
    ELSE Stop(h)

CountNext(h, id) ==
    LET nd == h[id] IN
    IF nd.pos > CountCap THEN Cap(h)
    ELSE Yield([h EXCEPT ![id].pos = nd.pos + nd.n], id, nd.pos)

MapNext(h, id) ==
    LET nd == h[id]
        r == Pull(h, nd.up) IN
    IF r.st = "val" THEN Yield(Called(r.h, id), id, ApplyFn(nd.fn, r.v))
    ELSE Finish(r, id)

FilterNext(h, id) ==
    LET nd == h[id]
        r == Pull(h, nd.up) IN
    IF r.st # "val" THEN Finish(r, id)
    ELSE IF ApplyPred(nd.fn, r.v) THEN Yield(Called(r.h, id), id, r.v)
    ELSE Pull(Called(r.h, id), id)

\* islice that asks upstream before it looks at its own count.
IsliceNextAhead(h, id) ==
    LET nd == h[id]
        r == Pull(h, nd.up) IN
    IF r.st = "cap" THEN Cap(r.h)
    ELSE IF nd.n <= 0 \/ r.st = "stop" THEN Stop(r.h)
    ELSE Yield([r.h EXCEPT ![id].n = nd.n - 1], id, r.v)

IsliceNext(h, id) ==
    LET nd == h[id] IN
    IF nd.n <= 0 THEN Stop(h)
    ELSE LET r == Pull(h, nd.up) IN
         IF r.st = "val" THEN Yield([r.h EXCEPT ![id].n = nd.n - 1], id, r.v)
         ELSE IF r.st = "stop" THEN Stop(r.h) ELSE Cap(r.h)

\* take_while that looks at the next element without taking it: the first
\* failing element stays in the upstream.
TakeWhileNextPeek(h, id) ==
    LET nd == h[id]
        r == Pull(h, nd.up) IN
    IF r.st # "val" THEN Finish(r, id)
    ELSE IF ApplyPred(nd.fn, r.v) THEN Yield(Called(r.h, id), id, r.v)
    ELSE Stop([Called(h, id) EXCEPT ![id].st = "done"])

TakeWhileNext(h, id) ==
    LET nd == h[id]
        r == Pull(h, nd.up) IN
    IF r.st # "val" THEN Finish(r, id)
    ELSE IF ApplyPred(nd.fn, r.v) THEN Yield(Called(r.h, id), id, r.v)
    ELSE Stop([Called(r.h, id) EXCEPT ![id].st = "done"])

\* drop_while that keeps testing after the first failing element: every
\* passing element is skipped.
DropWhileNextAll(h, id) ==
    LET nd == h[id]
        r == Pull(h, nd.up) IN
    IF r.st # "val" THEN Finish(r, id)
    ELSE IF ApplyPred(nd.fn, r.v) THEN Pull(Called(r.h, id), id)
    ELSE Yield([Called(r.h, id) EXCEPT ![id].st = "run"], id, r.v)

DropWhileNext(h, id) ==
    LET nd == h[id]
        r == Pull(h, nd.up) IN
    IF r.st # "val" THEN Finish(r, id)
    ELSE IF nd.st = "new"
         THEN IF ApplyPred(nd.fn, r.v) THEN Pull(Called(r.h, id), id)
              ELSE Yield([Called(r.h, id) EXCEPT ![id].st = "run"], id, r.v)
         ELSE Yield(r.h, id, r.v)

\* flat_map that flattens every result that has __iter__, strings too.
FlatMapNextNoStrCheck(h, id) ==
    LET nd == h[id] IN
    IF nd.buf # <<>>
    THEN Yield([h EXCEPT ![id].buf = Tail(nd.buf)], id, Head(nd.buf))
    ELSE LET r == Pull(h, nd.up) IN
         IF r.st # "val" THEN Finish(r, id)
         ELSE LET res == FlatResult(nd.fn, r.v)
                  h2 == Called(r.h, id) IN
              IF ~res.iter THEN Yield(h2, id, res.whole)
              ELSE IF res.vals = <<>> THEN Pull(h2, id)
              ELSE Yield([h2 EXCEPT ![id].buf = Tail(res.vals)], id, Head(res.vals))

FlatMapNext(h, id) ==
    LET nd == h[id] IN
    IF nd.buf # <<>>
    THEN Yield([h EXCEPT ![id].buf = Tail(nd.buf)], id, Head(nd.buf))
    ELSE LET r == Pull(h, nd.up) IN
         IF r.st # "val" THEN Finish(r, id)
         ELSE LET res == FlatResult(nd.fn, r.v)
                  h2 == Called(r.h, id) IN
              IF ~(res.iter /\ ~res.str) THEN Yield(h2, id, res.whole)
              ELSE IF res.vals = <<>> THEN Pull(h2, id)
              ELSE Yield([h2 EXCEPT ![id].buf = Tail(res.vals)], id, Head(res.vals))

\* zip that asks its second iterator first.
ZipNextOtherFirst(h, id) ==
    LET nd == h[id]
        r2 == Pull(h, nd.up2) IN
    IF r2.st # "val" THEN Finish(r2, id)
    ELSE LET r1 == Pull(r2.h, nd.up) IN
         IF r1.st # "val" THEN Finish(r1, id)
         ELSE Yield(Called(r1.h, id), id, Apply2(nd.fn, r1.v, r2.v))

ZipNext(h, id) ==
    LET nd == h[id]
        r1 == Pull(h, nd.up) IN
    IF r1.st # "val" THEN Finish(r1, id)
    ELSE LET r2 == Pull(r1.h, nd.up2) IN
         IF r2.st # "val" THEN Finish(r2, id)
         ELSE Yield(Called(r2.h, id), id, Apply2(nd.fn, r1.v, r2.v))

\* scan that starts with the first accumulation: initial is never yielded.
ScanNextNoInitial(h, id) ==
    LET nd == h[id]
        r == Pull(h, nd.up)
    IN IF r.st # "val" THEN Finish(r, id)
       ELSE LET a == Apply2(nd.fn, nd.acc, r.v) IN
            Yield([Called(r.h, id) EXCEPT ![id].acc = a, ![id].st = "run"], id, a)

ScanNext(h, id) ==
    LET nd == h[id] IN
    IF nd.st = "new" THEN Yield([h EXCEPT ![id].st = "run"], id, nd.acc)
    ELSE LET r == Pull(h, nd.up) IN
         IF r.st # "val" THEN Finish(r, id)
         ELSE LET a == Apply2(nd.fn, nd.acc, r.v) IN
              Yield([Called(r.h, id) EXCEPT ![id].acc = a], id, a)

\* chunk that ends at a group shorter than size instead of yielding it.
ChunkNextDropShort(h, id) ==
    LET nd == h[id]
        c == PullN(h, nd.up, nd.n) IN
    IF c.st = "cap" THEN Cap(c.h)
    ELSE IF Len(c.vs) < nd.n THEN Stop([c.h EXCEPT ![id].st = "done"])
    ELSE Yield(c.h, id, c.vs)

ChunkNext(h, id) ==
    LET nd == h[id]
        c == PullN(h, nd.up, nd.n) IN
    IF c.st = "cap" THEN Cap(c.h)
    ELSE IF c.vs = <<>> THEN Stop([c.h EXCEPT ![id].st = "done"])
    ELSE Yield(c.h, id, c.vs)

\* next(its[id]).
Pull(h, id) ==
    LET nd == h[id] IN
    IF nd.kind = "list" THEN ListNext(h, id)
    ELSE IF nd.kind = "count" THEN CountNext(h, id)
    ELSE IF nd.kind = "islice" THEN IsliceNext(h, id)
    ELSE IF nd.st = "done" THEN Stop(h)
    ELSE IF nd.kind = "map" THEN MapNext(h, id)
    ELSE IF nd.kind = "filter" THEN FilterNext(h, id)
    ELSE IF nd.kind = "take_while" THEN TakeWhileNext(h, id)
    ELSE IF nd.kind = "drop_while" THEN DropWhileNext(h, id)
    ELSE IF nd.kind = "flat_map" THEN FlatMapNext(h, id)
    ELSE IF nd.kind = "zip" THEN ZipNext(h, id)
    ELSE IF nd.kind = "scan" THEN ScanNext(h, id)
    ELSE ChunkNext(h, id)

\* list(iterator): every remaining element.
RECURSIVE Drain(_, _)
Drain(h, id) ==
    LET r == Pull(h, id) IN
    IF r.st = "val"
    THEN LET d == Drain(r.h, id) IN
         [h |-> d.h, st |-> d.st, vs |-> <<r.v>> \o d.vs]
    ELSE [h |-> r.h, st |-> IF r.st = "cap" THEN "cap" ELSE "ok", vs |-> <<>>]

(***************************************************************************)
(* LazySequence: constructors, transformation methods, terminal            *)
(* operations.  prev is the iterator heap before the last call and last    *)
(* describes that call: its name, the receiver s, its numeric argument n   *)
(* and what it returned (res, a list; head's None is the empty list).      *)
(* A pipeline is built fluently: a transformation method is called on the  *)
(* newest LazySequence, a terminal operation on any of them.               *)
(***************************************************************************)
Samples == {<<1, 3, 1>>}

Call(op, s, n, res) == [op |-> op, s |-> s, n |-> n, res |-> res]
NoCall == Call("none", 0, 0, <<>>)

FromIterable(l) == Node("list", 0, 0, "", 0, l, 0, 0)
Range(end) == Node("list", 0, 0, "", 0, RangeList(0, end), 0, 0)
Infinite(start) == Node("count", 0, 0, "", 1, <<>>, start, 0)

Newest == Len(seqs)

\* LazySequence(iterator) on a new iterator object nd.
NewSeq(nd, op, s, n) ==
    /\ Len(seqs) < MaxSeqs
    /\ its' = Append(its, nd)
    /\ seqs' = Append(seqs, Len(its) + 1)
    /\ prev' = its
    /\ last' = Call(op, s, n, <<>>)
    /\ UNCHANGED notLazy

\* A derived sequence never wraps a chunk sequence or a flat_map that yields
\* strings here: their elements are lists and strings, on which the element
\* functions of the model are not defined.
Receiver(s) ==
    /\ s \in 1..Len(seqs)
    /\ its[seqs[s]].kind # "chunk"
    /\ ~(its[seqs[s]].kind = "flat_map" /\ its[seqs[s]].fn = "str")

\* map written with a list comprehension: fn runs over the whole receiver
\* when map is called.
MapEager(s, f) ==
    /\ Receiver(s)
    /\ Len(seqs) < MaxSeqs
    /\ LET d == Drain(its, seqs[s])
           nd == Node("list", 0, 0, f, 0, [i \in 1..Len(d.vs) |-> ApplyFn(f, d.vs[i])], 0, 0) IN
       /\ d.st = "ok"
       /\ its' = Append(d.h, [nd EXCEPT !.calls = Len(d.vs)])
       /\ seqs' = Append(seqs, Len(its) + 1)
       /\ prev' = its
       /\ last' = Call("map", s, 0, <<>>)
    /\ UNCHANGED notLazy

\* map over a copy of the receiver's iterator: the derived sequence has a
\* cursor of its own.
MapCopy(s, f) ==
    /\ Receiver(s)
    /\ Len(seqs) < MaxSeqs
    /\ its' = its \o <<its[seqs[s]], Node("map", Len(its) + 1, 0, f, 0, <<>>, 0, 0)>>
    /\ seqs' = Append(seqs, Len(its) + 2)
    /\ prev' = its
    /\ last' = Call("map", s, 0, <<>>)
    /\ UNCHANGED notLazy

Map(s, f) ==
    Receiver(s) /\ NewSeq(Node("map", seqs[s], 0, f, 0, <<>>, 0, 0), "map", s, 0)

Filter(s, p) ==
    Receiver(s) /\ NewSeq(Node("filter", seqs[s], 0, p, 0, <<>>, 0, 0), "filter", s, 0)

\* take that materialises its n elements when it is called.
TakeEager(s, n) ==
    /\ Receiver(s)
    /\ Len(seqs) < MaxSeqs
    /\ LET d == PullN(its, seqs[s], n) IN
       /\ d.st = "ok"
       /\ its' = Append(d.h, Node("list", 0, 0, "", 0, d.vs, 0, 0))
       /\ seqs' = Append(seqs, Len(its) + 1)
       /\ prev' = its
       /\ last' = Call("take", s, n, <<>>)
    /\ UNCHANGED notLazy

Take(s, n) ==
    Receiver(s) /\ NewSeq(Node("islice", seqs[s], 0, "", n, <<>>, 0, 0), "take", s, n)

\* drop that leaves the skipping to the consumer.
DropDeferred(s, n) ==
    /\ s \in 1..Len(seqs)
    /\ Len(seqs) < MaxSeqs
    /\ its' = its
    /\ seqs' = Append(seqs, seqs[s])
    /\ prev' = its
    /\ last' = Call("drop", s, n, <<>>)
    /\ UNCHANGED notLazy

\* for _ in range(n): next(self._iterator), until StopIteration.
Drop(s, n) ==
    /\ s \in 1..Len(seqs)
    /\ Len(seqs) < MaxSeqs
    /\ LET d == PullN(its, seqs[s], n) IN
       /\ d.st = "ok"
       /\ its' = d.h
       /\ seqs' = Append(seqs, seqs[s])
       /\ prev' = its
       /\ last' = Call("drop", s, n, <<>>)
    /\ UNCHANGED notLazy

TakeWhile(s, p) ==
    Receiver(s) /\ NewSeq(Node("take_while", seqs[s], 0, p, 0, <<>>, 0, 0), "take_while", s, 0)

\* drop_while that starts its generator when it is called.
DropWhilePrimed(s, p) ==
    /\ Receiver(s)
    /\ Len(seqs) < MaxSeqs
    /\ LET h1 == Append(its, Node("drop_while", seqs[s], 0, p, 0, <<>>, 0, 0))
           r == Pull(h1, Len(h1)) IN
       /\ r.st # "cap"
       /\ its' = r.h
       /\ seqs' = Append(seqs, Len(its) + 1)
       /\ prev' = its
       /\ last' = Call("drop_while", s, 0, <<>>)
    /\ UNCHANGED notLazy

DropWhile(s, p) ==
    Receiver(s) /\ NewSeq(Node("drop_while", seqs[s], 0, p, 0, <<>>, 0, 0), "drop_while", s, 0)

FlatMap(s, f) ==
    Receiver(s) /\ NewSeq(Node("flat_map", seqs[s], 0, f, 0, <<>>, 0, 0), "flat_map", s, 0)

ZipWith(s, o) ==
    /\ Receiver(s) /\ Receiver(o)
    /\ NewSeq(Node("zip", seqs[s], seqs[o], "cat", 0, <<>>, 0, 0), "zip_with", s, o)

Scan(s, initial) ==
    Receiver(s) /\ NewSeq(Node("scan", seqs[s], 0, "add", 0, <<>>, 0, initial), "scan", s, initial)

Chunk(s, size) ==
    Receiver(s) /\ NewSeq(Node("chunk", seqs[s], 0, "", size, <<>>, 0, 0), "chunk", s, size)

\* The terminal operations.
\* to_list over a fresh copy of the iterator: the sequence is not advanced.
ToListFresh(s) ==
    /\ s \in 1..Len(seqs)
    /\ LET d == Drain(its, seqs[s]) IN
       /\ d.st = "ok"
       /\ its' = its
       /\ prev' = its
       /\ last' = Call("to_list", s, 0, d.vs)
    /\ UNCHANGED <<seqs, notLazy>>

ToList(s) ==
    /\ s \in 1..Len(seqs)
    /\ LET d == Drain(its, seqs[s]) IN
       /\ d.st = "ok"
       /\ its' = d.h
       /\ prev' = its
       /\ last' = Call("to_list", s, 0, d.vs)
    /\ UNCHANGED <<seqs, notLazy>>

HeadOp(s) ==
    /\ s \in 1..Len(seqs)
    /\ LET r == Pull(its, seqs[s]) IN
       /\ r.st # "cap"
       /\ its' = r.h
       /\ prev' = its
       /\ last' = Call("head", s, 0, IF r.st = "val" THEN <<r.v>> ELSE <<>>)
    /\ UNCHANGED <<seqs, notLazy>>

RECURSIVE FoldAdd(_, _)
FoldAdd(acc, vs) == IF vs = <<>> THEN acc ELSE FoldAdd(Apply2("add", acc, Head(vs)), Tail(vs))

Reduce(s, initial) ==
    /\ Receiver(s)
    /\ LET d == Drain(its, seqs[s]) IN
       /\ d.st = "ok"
       /\ its' = d.h
       /\ prev' = its
       /\ last' = Call("reduce", s, initial, <<FoldAdd(initial, d.vs)>>)
    /\ UNCHANGED <<seqs, notLazy>>

\* One step of `for x in seq`: next() on the iterator __iter__ returned.
IterNext(s) ==
    /\ s \in 1..Len(seqs)
    /\ LET r == Pull(its, seqs[s]) IN
       /\ r.st # "cap"
       /\ its' = r.h
       /\ prev' = its
       /\ last' = Call("iter", s, 0, IF r.st = "val" THEN <<r.v>> ELSE <<>>)
    /\ UNCHANGED <<seqs, notLazy>>

(***************************************************************************)
(* Properties of the LazySequence pipeline.                                *)
(***************************************************************************)
Terminals == {"to_list", "head", "reduce", "iter"}
Deferred == {"map", "filter", "flat_map", "take_while", "drop_while", "scan", "chunk", "zip_with"}

\* Every iterator that existed before the last call is as it was.
Kept == \A i \in 1..Len(prev) : its[i] = prev[i]
\* The last call built one new iterator that has done nothing yet, and one
\* new LazySequence around it.
Fresh ==
    /\ Len(its) = Len(prev) + 1
    /\ its[Len(its)].calls = 0 /\ its[Len(its)].outs = 0 /\ its[Len(its)].st = "new"
    /\ seqs[Len(seqs)] = Len(its)
    /\ \A s \in 1..(Len(seqs) - 1) : seqs[s] # Len(its)

\* The iterators that a pull on node id can reach.
RECURSIVE UpSet(_, _)
UpSet(h, id) ==
    IF id = 0 THEN {} ELSE {id} \cup UpSet(h, h[id].up) \cup UpSet(h, h[id].up2)

\* The receiver's iterator in the last call.
RNode == seqs[last.s]
Finite(h, id) == Drain(h, id).st = "ok"
Rest(h, id) == Drain(h, id).vs
ListRest(nd) == SubSeq(nd.items, nd.pos + 1, Len(nd.items))

\* C1: seq.map(f) invokes f zero times when it is built, and f is invoked
\* only by a call that pulls through the map; to_list on seq.map(f).take(n)
\* invokes f exactly min(n, elements left in seq) times (n times on an
\* infinite seq) and returns f of those elements.
C1_MapTakeCallsF ==
    /\ last.op = "map" => Kept /\ Fresh
    /\ \A i \in 1..Len(prev) :
          (its[i].kind = "map" /\ its[i].calls # prev[i].calls)
              => last.op \in Terminals \cup {"drop"} /\ i \in UpSet(its, RNode)
    /\ (last.op = "to_list" /\ its[RNode].kind = "islice" /\ its[its[RNode].up].kind = "map")
          => LET t == RNode
                 m == its[t].up
                 u == its[m].up
                 n == prev[t].n
                 left == IF prev[u].kind = "list" THEN Len(ListRest(prev[u]))
                         ELSE IF prev[u].kind = "count" THEN n
                         ELSE Len(PullN(prev, u, n).vs)
                 k == Min(n, left)
             IN /\ its[m].calls = prev[m].calls + k
                /\ Len(last.res) = k
                /\ prev[u].kind = "list" =>
                      last.res = [i \in 1..k |-> ApplyFn(its[m].fn, ListRest(prev[u])[i])]
                /\ prev[u].kind = "count" =>
                      last.res = [i \in 1..k |-> ApplyFn(its[m].fn, prev[u].pos + i - 1)]

C1_Witness ==
    /\ last.op = "to_list"
    /\ its[RNode].kind = "islice"
    /\ its[its[RNode].up].kind = "map"
    /\ its[its[its[RNode].up].up].kind = "count"
    /\ prev[its[RNode].up].calls = 0
    /\ its[its[RNode].up].calls = MaxN

\* C3: a terminal operation on a source sequence of which k elements were
\* already pulled returns the source elements after the first k, in order
\* (to_list all of them, head and iteration the next one, reduce their
\* fold), and after to_list or reduce the sequence yields nothing more.
C3_SinglePass ==
    /\ \A i \in 1..Len(its) : its[i].kind = "list" => its[i].pos = its[i].outs
    /\ (last.op \in Terminals /\ prev[RNode].kind = "list")
          => LET rest == ListRest(prev[RNode]) IN
             /\ last.op = "to_list" => last.res = rest /\ ListRest(its[RNode]) = <<>>
             /\ last.op = "reduce" =>
                   last.res = <<FoldAdd(last.n, rest)>> /\ ListRest(its[RNode]) = <<>>
             /\ last.op \in {"head", "iter"} =>
                   IF rest = <<>> THEN last.res = <<>> /\ its[RNode] = prev[RNode]
                   ELSE last.res = <<rest[1]>> /\ ListRest(its[RNode]) = Tail(rest)
    /\ (last.op \in {"head", "iter"} /\ prev[RNode].kind = "count")
          => last.res = <<prev[RNode].pos>> /\ its[RNode].pos = prev[RNode].pos + 1
    /\ last.op \in {"to_list", "reduce"} => Finite(its, RNode) /\ Rest(its, RNode) = <<>>

C3_Witness ==
    /\ last.op = "to_list"
    /\ prev[RNode].kind = "list"
    /\ prev[RNode].pos >= 1
    /\ last.res # <<>>

\* C4: drop(n), n >= 0, pulls min(n, remaining) elements from the
\* receiver's iterator while drop runs and returns a sequence over the
\* same iterator, which then holds the elements after those; n larger
\* than what remains is not an error.
C4_DropIsEager ==
    (last.op = "drop" /\ last.n >= 0)
       => LET d == RNode IN
          /\ seqs[Len(seqs)] = d
          /\ Len(its) = Len(prev)
          /\ prev[d].kind = "list" =>
                /\ its[d].pos = Min(prev[d].pos + last.n, Len(prev[d].items))
                /\ its[d].outs = prev[d].outs + Min(last.n, Len(ListRest(prev[d])))
          /\ prev[d].kind = "count" =>
                its[d].pos = prev[d].pos + last.n /\ its[d].outs = prev[d].outs + last.n
          /\ Finite(prev, d) =>
                LET k == Min(last.n, Len(Rest(prev, d))) IN
                /\ its[d].outs = prev[d].outs + k
                /\ Rest(its, d) = SubSeq(Rest(prev, d), k + 1, Len(Rest(prev, d)))

C4_Witness ==
    /\ last.op = "drop"
    /\ last.n >= 1
    /\ its[RNode].outs > prev[RNode].outs
    /\ its[RNode].kind # "list"

C6_DeferredAtCallTime == last.op \in Deferred => Kept /\ Fresh

C6_Witness ==
    /\ last.op \in Deferred
    /\ prev[RNode].outs > 0
    /\ Len(ListRest(prev[RNode])) > 0

\* C7: to_list on s.take(n) pulls exactly min(n, remaining) elements from
\* s, returns them in order, and leaves the element after them as the next
\* one s yields.
C7_TakeNoLookAhead ==
    (last.op = "to_list" /\ its[RNode].kind = "islice")
       => LET t == RNode
              u == its[t].up
              n == prev[t].n
              k == its[u].outs - prev[u].outs
          IN /\ prev[u].kind = "list" =>
                   /\ k = Min(n, Len(ListRest(prev[u])))
                   /\ last.res = SubSeq(ListRest(prev[u]), 1, k)
                   /\ ListRest(its[u]) = SubSeq(ListRest(prev[u]), k + 1, Len(ListRest(prev[u])))
             /\ prev[u].kind = "count" =>
                   /\ k = n
                   /\ last.res = [i \in 1..n |-> prev[u].pos + i - 1]
                   /\ its[u].pos = prev[u].pos + n
             /\ Finite(prev, u) =>
                   /\ k = Min(n, Len(Rest(prev, u)))
                   /\ last.res = SubSeq(Rest(prev, u), 1, k)
                   /\ Rest(its, u) = SubSeq(Rest(prev, u), k + 1, Len(Rest(prev, u)))

C7_Witness ==
    /\ last.op = "to_list"
    /\ its[RNode].kind = "islice"
    /\ prev[RNode].n >= 1
    /\ prev[its[RNode].up].kind = "list"
    /\ Len(last.res) = prev[RNode].n
    /\ ListRest(its[its[RNode].up]) # <<>>

\* The elements of vs that satisfy p, in order.
Passing(p, vs) == SelectSeq(vs, LAMBDA x : ApplyPred(p, x))

\* The elements of the infinite source nd that lie in the covered part.
Covered(nd) == RangeList(nd.pos, CountCap + 1)

\* s wraps take(n) of filter(p) of an infinite source.
InfiniteFilterTake(h, t) ==
    /\ h[t].kind = "islice"
    /\ h[h[t].up].kind = "filter"
    /\ h[h[h[t].up].up].kind = "count"

\* C24: infinite(start).filter(p).take(n).to_list() terminates whenever n
\* elements of the source satisfy p and returns the first n of them in
\* order; the last source element it pulls is the n-th passing one, and
\* with n = 0 it pulls none.
C24_InfiniteFilterTake ==
    /\ \A s \in 1..Len(seqs) :
          InfiniteFilterTake(its, seqs[s])
             => LET t == seqs[s]
                    f == its[t].up
                    c == its[f].up
                IN Len(Passing(its[f].fn, Covered(its[c]))) >= its[t].n
                      => Drain(its, t).st = "ok"
    /\ (last.op = "to_list" /\ InfiniteFilterTake(prev, RNode))
          => LET t == RNode
                 f == prev[t].up
                 c == prev[f].up
                 n == Max(prev[t].n, 0)
                 ok == Passing(prev[f].fn, Covered(prev[c]))
             IN /\ Len(ok) >= n
                /\ last.res = SubSeq(ok, 1, n)
                /\ its[c].pos = IF n = 0 THEN prev[c].pos ELSE ok[n] + 1

\* to_list on take(3) of the even elements of an infinite source: three
\* elements, and the source stands right after the third.
C24_Witness ==
    /\ last.op = "to_list"
    /\ InfiniteFilterTake(prev, RNode)
    /\ prev[prev[RNode].up].fn = "even"
    /\ Len(last.res) = 3
    /\ its[its[its[RNode].up].up].pos = last.res[3] + 1

\* The running accumulations of fn over vs, starting after acc.
RECURSIVE Running(_, _, _)
Running(f, acc, vs) ==
    IF vs = <<>> THEN <<>>
    ELSE LET a == Apply2(f, acc, Head(vs)) IN <<a>> \o Running(f, a, Tail(vs))

\* C20: the first element pulled from scan(fn, initial) is initial, and
\* pulling it moves no other iterator; to_list on a scan nothing was pulled
\* from returns initial followed by the running accumulation after each
\* upstream element, one element more than the upstream had left.
C20_ScanYieldsInitialFirst ==
    (last.op \in {"head", "to_list"} /\ its[RNode].kind = "scan" /\ prev[RNode].st = "new")
       => LET nd == prev[RNode]
              rest == Rest(prev, nd.up)
          IN /\ last.res # <<>>
             /\ last.res # <<>> => Head(last.res) = nd.acc
             /\ last.op = "head"
                   => /\ last.res = <<nd.acc>>
                      /\ \A i \in 1..Len(prev) : i # RNode => its[i] = prev[i]
             /\ last.op = "to_list"
                   => /\ Len(last.res) = Len(rest) + 1
                      /\ last.res = <<nd.acc>> \o Running(nd.fn, nd.acc, rest)

\* to_list on a scan over an upstream with two elements left: three
\* elements, the last being initial plus both.
C20_Witness ==
    /\ last.op = "to_list"
    /\ its[RNode].kind = "scan"
    /\ prev[RNode].st = "new"
    /\ Len(Rest(prev, prev[RNode].up)) = 2
    /\ Len(last.res) = 3
    /\ last.res[3] # last.res[1]

\* The groups of a list of lists, joined in order.
RECURSIVE Joined(_)
Joined(gs) == IF gs = <<>> THEN <<>> ELSE Head(gs) \o Joined(Tail(gs))

\* C21: forcing chunk(size), size >= 1, yields groups that joined in order
\* are the upstream's remaining elements; every group but the last has
\* exactly size elements, the last has between 1 and size, none is empty,
\* and an exhausted upstream yields no group.  head yields the first group.
C21_ChunkGroups ==
    (last.op \in {"to_list", "head"} /\ its[RNode].kind = "chunk")
       => LET nd == prev[RNode]
              rest == Rest(prev, nd.up)
              gs == last.res
          IN /\ nd.n >= 1
             /\ \A i \in 1..Len(gs) : Len(gs[i]) \in 1..nd.n
             /\ \A i \in 1..(Len(gs) - 1) : Len(gs[i]) = nd.n
             /\ rest = <<>> => gs = <<>>
             /\ last.op = "to_list" => Joined(gs) = rest
             /\ (last.op = "head" /\ rest # <<>>)
                   => gs = <<SubSeq(rest, 1, Min(nd.n, Len(rest)))>>

\* to_list on chunk(2) over three elements: a full group, then a group of
\* one.
C21_Witness ==
    /\ last.op = "to_list"
    /\ its[RNode].kind = "chunk"
    /\ Len(last.res) = 2
    /\ Len(last.res[1]) = 2
    /\ Len(last.res[2]) = 1

\* The longest prefix of vs whose elements all satisfy p, and what follows it.
RECURSIVE TakeWhileSeq(_, _)
TakeWhileSeq(p, vs) ==
    IF vs = <<>> \/ ~ApplyPred(p, Head(vs)) THEN <<>>
    ELSE <<Head(vs)>> \o TakeWhileSeq(p, Tail(vs))

DropWhileSeq(p, vs) == SubSeq(vs, Len(TakeWhileSeq(p, vs)) + 1, Len(vs))

\* C22: to_list on take_while(p) returns the longest prefix of the upstream
\* whose elements satisfy p and evaluates p on that prefix and on the first
\* failing element only; to_list on drop_while(p) skips exactly that prefix
\* and returns everything from the first failing element on, later passing
\* elements included, without testing them; p is evaluated only while a
\* consumer pulls through the sequence.
C22_TakeWhileDropWhile ==
    /\ \A i \in 1..Len(prev) :
          (its[i].kind \in {"take_while", "drop_while"} /\ its[i].calls # prev[i].calls)
              => last.op \in Terminals /\ i \in UpSet(its, RNode)
    /\ (last.op = "to_list" /\ its[RNode].kind = "take_while" /\ prev[RNode].st = "new")
          => LET nd == prev[RNode]
                 rest == Rest(prev, nd.up)
                 pre == TakeWhileSeq(nd.fn, rest)
             IN /\ last.res = pre
                /\ its[RNode].calls - nd.calls
                      = Len(pre) + (IF Len(pre) < Len(rest) THEN 1 ELSE 0)
    /\ (last.op = "to_list" /\ its[RNode].kind = "drop_while")
          => LET nd == prev[RNode]
                 rest == Rest(prev, nd.up)
                 pre == TakeWhileSeq(nd.fn, rest)
             IN IF nd.st = "new"
                THEN /\ last.res = DropWhileSeq(nd.fn, rest)
                     /\ its[RNode].calls - nd.calls
                           = Len(pre) + (IF Len(pre) < Len(rest) THEN 1 ELSE 0)
                ELSE /\ last.res = rest
                     /\ its[RNode].calls = nd.calls

\* to_list on drop_while(p) over an upstream whose first element passes,
\* whose second fails and whose third passes again: the last two come out.
C22_Witness ==
    /\ last.op = "to_list"
    /\ its[RNode].kind = "drop_while"
    /\ prev[RNode].st = "new"
    /\ Len(last.res) = 2
    /\ ~ApplyPred(prev[RNode].fn, last.res[1])
    /\ ApplyPred(prev[RNode].fn, last.res[2])
    /\ Len(Rest(prev, prev[RNode].up)) = 3

\* What flat_map yields for the upstream elements vs: the elements of each
\* list result in order, a scalar or a string as one element.
RECURSIVE FlatAll(_, _)
FlatAll(f, vs) ==
    IF vs = <<>> THEN <<>>
    ELSE (IF f = "pair" THEN <<Head(vs), Head(vs) * 10>>
          ELSE IF f = "str" THEN <<100 + Head(vs)>>
          ELSE <<Head(vs)>>) \o FlatAll(f, Tail(vs))

\* C23: flat_map(fn) yields, for each upstream element, every element of
\* fn's result in order when the result is an iterable other than a string,
\* and the result itself as one element when it is not iterable or is a
\* string; the elements of one result all come out before the next upstream
\* element is pulled.
C23_FlatMapFlattens ==
    (last.op \in {"to_list", "head"} /\ its[RNode].kind = "flat_map")
       => LET nd == prev[RNode]
              rest == Rest(prev, nd.up)
              all == nd.buf \o FlatAll(nd.fn, rest)
          IN /\ last.op = "to_list" => last.res = all
             /\ last.op = "head"
                   => /\ last.res = SubSeq(all, 1, Min(1, Len(all)))
                      /\ nd.buf # <<>>
                            => \A i \in 1..Len(prev) : i # RNode => its[i] = prev[i]
                      /\ (nd.buf = <<>> /\ rest # <<>>)
                            => /\ Rest(its, nd.up) = Tail(rest)
                               /\ its[RNode].buf = Tail(FlatAll(nd.fn, <<Head(rest)>>))

\* to_list on flat_map over two elements whose results are two-element
\* lists: four elements, each list's two next to each other.
C23_Witness ==
    /\ last.op = "to_list"
    /\ its[RNode].kind = "flat_map"
    /\ prev[RNode].fn = "pair"
    /\ Len(Rest(prev, prev[RNode].up)) = 2
    /\ Len(last.res) = 4
    /\ last.res[2] = last.res[1] * 10
    /\ last.res[4] = last.res[3] * 10

\* C27: forcing take_while(p) over an upstream that has a failing element
\* takes the first failing element out of the upstream without yielding
\* it: what the upstream yields afterwards starts after that element.
C27_TakeWhileEatsFailing ==
    (last.op \in {"to_list", "head"} /\ its[RNode].kind = "take_while" /\ prev[RNode].st = "new")
       => LET nd == prev[RNode]
              rest == Rest(prev, nd.up)
              pre == TakeWhileSeq(nd.fn, rest)
              n == Len(pre)
          IN /\ (last.op = "to_list" /\ n < Len(rest))
                   => /\ last.res = pre
                      /\ Len(last.res) + Len(Rest(its, nd.up)) = Len(rest) - 1
                      /\ Rest(its, nd.up) = SubSeq(rest, n + 2, Len(rest))
             /\ (last.op = "to_list" /\ n = Len(rest)) => Rest(its, nd.up) = <<>>
             /\ (last.op = "head" /\ n = 0 /\ rest # <<>>)
                   => last.res = <<>> /\ Rest(its, nd.up) = Tail(rest)

\* to_list on take_while over [1, 3, 1] with p = (x < 2): it returns [1],
\* and the upstream has only the last 1 left; the 3 came out nowhere.
C27_Witness ==
    /\ last.op = "to_list"
    /\ its[RNode].kind = "take_while"
    /\ prev[RNode].st = "new"
    /\ Rest(prev, prev[RNode].up) = <<1, 3, 1>>
    /\ last.res = <<1>>
    /\ Rest(its, its[RNode].up) = <<1>>

\* C28: forcing a.zip_with(b, fn) over two separate sources yields
\* fn(a_i, b_i) for the first min(len a, len b) positions, taking from a
\* before b for each pair: when b runs out first, one more element of a
\* has been taken and is lost; when a runs out first (or both together),
\* nothing more is taken from b.
C28_ZipPullsAFirst ==
    (/\ last.op \in {"to_list", "head"}
     /\ its[RNode].kind = "zip"
     /\ prev[RNode].st = "new"
     /\ prev[RNode].up # prev[RNode].up2
     /\ prev[prev[RNode].up].kind = "list"
     /\ prev[prev[RNode].up2].kind = "list")
       => LET nd == prev[RNode]
              ra == ListRest(prev[nd.up])
              rb == ListRest(prev[nd.up2])
              m == Min(Len(ra), Len(rb))
              k == IF last.op = "head" THEN Min(1, m) ELSE m
              ended == last.op = "to_list" \/ m = 0
          IN /\ last.res = [i \in 1..k |-> ra[i] * 10 + rb[i]]
             /\ ListRest(its[nd.up2]) = SubSeq(rb, k + 1, Len(rb))
             /\ ListRest(its[nd.up])
                   = SubSeq(ra, k + 1 + (IF ended /\ Len(ra) > Len(rb) THEN 1 ELSE 0), Len(ra))

\* to_list on the zip of a three-element a with a one-element b: one
\* result, and a has one element left: its second was taken and lost.
C28_Witness ==
    /\ last.op = "to_list"
    /\ its[RNode].kind = "zip"
    /\ prev[RNode].up # prev[RNode].up2
    /\ Len(ListRest(prev[prev[RNode].up])) = 3
    /\ Len(ListRest(prev[prev[RNode].up2])) = 1
    /\ Len(last.res) = 1
    /\ Len(ListRest(its[its[RNode].up])) = 1

\* vs cut into groups of k, the last one possibly shorter.
RECURSIVE Groups(_, _)
Groups(vs, k) ==
    IF vs = <<>> THEN <<>>
    ELSE <<SubSeq(vs, 1, Min(k, Len(vs)))>> \o Groups(SubSeq(vs, k + 1, Len(vs)), k)

\* What the derived iterator nd has left to yield when its receiver has r
\* left: nd's own state (the count of take, the buffer of flat_map, the
\* accumulator of scan, whether drop_while still skips) applied to r.
Derive(nd, r) ==
    IF nd.kind = "map" THEN [i \in 1..Len(r) |-> ApplyFn(nd.fn, r[i])]
    ELSE IF nd.kind = "filter" THEN Passing(nd.fn, r)
    ELSE IF nd.kind = "islice" THEN SubSeq(r, 1, Min(Max(nd.n, 0), Len(r)))
    ELSE IF nd.kind = "take_while"
    THEN IF nd.st = "done" THEN <<>> ELSE TakeWhileSeq(nd.fn, r)
    ELSE IF nd.kind = "drop_while"
    THEN IF nd.st = "new" THEN DropWhileSeq(nd.fn, r) ELSE r
    ELSE IF nd.kind = "flat_map" THEN nd.buf \o FlatAll(nd.fn, r)
    ELSE IF nd.kind = "scan"
    THEN (IF nd.st = "new" THEN <<nd.acc>> ELSE <<>>) \o Running(nd.fn, nd.acc, r)
    ELSE IF nd.kind = "chunk" THEN Groups(r, nd.n)
    ELSE IF nd.st = "done" THEN <<>>
    ELSE [i \in 1..(Len(r) \div 2) |-> r[2 * i - 1] * 10 + r[2 * i]]

Left(v) == [left |-> TRUE, val |-> v]
Right(v) == [left |-> FALSE, val |-> v]

BindFns == {"half", "succ"}
\* The Either-returning functions given to flat_map: a checked halving
\* that fails on odd input, and a successor that never fails.
ApplyBind(f, x) ==
    IF f = "half" THEN (IF x % 2 = 0 THEN Right(x \div 2) ELSE Left(0 - 1))
    ELSE Right(x + 1)
\* fold's handlers.
OnLeft(l) == l - 10
OnRight(r) == r + 10

ECall(op, calls, lcalls, rcalls, res, k) ==
    [op |-> op, calls |-> calls, lcalls |-> lcalls, rcalls |-> rcalls, res |-> res, k |-> k]

\* map without the _is_left test.
EitherMapUnchecked(e, f) == [res |-> Right(ApplyFn(f, e.val)), calls |-> <<e.val>>]

EitherMap(e, f) ==
    IF e.left THEN [res |-> Left(e.val), calls |-> <<>>]
    ELSE [res |-> Right(ApplyFn(f, e.val)), calls |-> <<e.val>>]

EitherMapLeft(e, f) ==
    IF e.left THEN [res |-> Left(ApplyFn(f, e.val)), calls |-> <<e.val>>]
    ELSE [res |-> Right(e.val), calls |-> <<>>]

EitherFlatMap(e, f) ==
    IF e.left THEN [res |-> Left(e.val), calls |-> <<>>]
    ELSE [res |-> ApplyBind(f, e.val), calls |-> <<e.val>>]

EitherFold(e) ==
    IF e.left THEN [res |-> OnLeft(e.val), lcalls |-> <<e.val>>, rcalls |-> <<>>]
    ELSE [res |-> OnRight(e.val), lcalls |-> <<>>, rcalls |-> <<e.val>>]

EitherSwap(e) == IF e.left THEN Right(e.val) ELSE Left(e.val)

EitherStep(op, r) ==
    /\ ecall.k < MaxChain
    /\ either' = r.res
    /\ eprev' = either
    /\ ecall' = ECall(op, r.calls, <<>>, <<>>, 0, ecall.k + 1)
    /\ ecalls' = IF either.left /\ op \in {"map", "flat_map"}
                 THEN ecalls + Len(r.calls) ELSE ecalls
    /\ UNCHANGED notEither

EMap(f) == EitherStep("map", EitherMap(either, f))
EMapLeft(f) == EitherStep("map_left", EitherMapLeft(either, f))
EFlatMap(f) == EitherStep("flat_map", EitherFlatMap(either, f))
ESwap == EitherStep("swap", [res |-> EitherSwap(either), calls |-> <<>>])

EFold ==
    /\ ecall.k < MaxChain
    /\ LET r == EitherFold(either) IN
       ecall' = ECall("fold", <<>>, r.lcalls, r.rcalls, r.res, ecall.k + 1)
    /\ eprev' = either
    /\ UNCHANGED <<either, ecalls, notEither>>

\* get_left that returns _value whatever the side.
EitherGetLeftUnchecked(e) == [status |-> "ok", v |-> e.val]

EitherGetLeft(e) ==
    IF ~e.left THEN [status |-> "ValueError", v |-> 0] ELSE [status |-> "ok", v |-> e.val]
EitherGetRight(e) ==
    IF e.left THEN [status |-> "ValueError", v |-> 0] ELSE [status |-> "ok", v |-> e.val]
EitherGetOrElse(e, default) ==
    IF e.left THEN [status |-> "ok", v |-> default] ELSE [status |-> "ok", v |-> e.val]

\* get_left, get_right or get_or_else(default) ended as r says; the value
\* is left as it was.
EGet(op, default, r) ==
    /\ ecall.k < MaxChain
    /\ ecall' = [op |-> op, calls |-> <<>>, lcalls |-> <<>>, rcalls |-> <<>>,
                 res |-> r.v, k |-> ecall.k + 1, default |-> default, status |-> r.status]
    /\ eprev' = either
    /\ UNCHANGED <<either, ecalls, notEither>>

EGetLeft == EGet("get_left", 0, EitherGetLeft(either))
EGetRight == EGet("get_right", 0, EitherGetRight(either))
EGetOrElse(default) == EGet("get_or_else", default, EitherGetOrElse(either, default))

\* C8: on a Left, map and flat_map return a Left with the same payload and
\* invoke their function zero times, so a chain that has reached a Left
\* makes no invocation from then on; fold on a Left invokes the left
\* handler once, on the payload, and never the right handler.
C8_LeftShortCircuits ==
    /\ ecalls = 0
    /\ (eprev.left /\ ecall.op \in {"map", "flat_map"})
          => either = Left(eprev.val) /\ ecall.calls = <<>>
    /\ (eprev.left /\ ecall.op = "fold")
          => /\ ecall.lcalls = <<eprev.val>>
             /\ ecall.rcalls = <<>>
             /\ ecall.res = OnLeft(eprev.val)

\* fold closes a full chain of calls on a Left: the left handler ran once,
\* on the payload.
C8_Witness ==
    /\ ecall.op = "fold"
    /\ ecall.k = MaxChain
    /\ eprev.left
    /\ ecall.lcalls = <<eprev.val>>

\* C17: get_left raises ValueError exactly when the value is a Right and
\* get_right exactly when it is a Left, each returning the payload
\* otherwise; get_or_else(default) never raises and returns the payload of
\* a Right and the default on a Left.
C17_GettersCheckTheSide ==
    /\ ecall.op = "get_left"
          => /\ ecall.status = "ValueError" <=> ~eprev.left
             /\ eprev.left => (ecall.status = "ok" /\ ecall.res = eprev.val)
    /\ ecall.op = "get_right"
          => /\ ecall.status = "ValueError" <=> eprev.left
             /\ ~eprev.left => (ecall.status = "ok" /\ ecall.res = eprev.val)
    /\ ecall.op = "get_or_else"
          => /\ ecall.status = "ok"
             /\ ecall.res = IF eprev.left THEN ecall.default ELSE eprev.val

\* get_left on a Right that a map produced: the wrong side.
C17_Witness ==
    /\ ecall.op = "get_left"
    /\ ecall.k > 1
    /\ ~eprev.left
    /\ ecall.status = "ValueError"

(***************************************************************************)
(* maybe.py.  A Maybe is (_value, _is_nothing).  Python values are ints   *)
(* or None.  `maybe` is the value a chain of calls has reached, mprev the  *)
(* receiver of the last call, mcall the call: the function, the arguments  *)
(* it was invoked with, and whether the call raised.                       *)
(***************************************************************************)
PyInt(x) == [t |-> "int", v |-> x]
PyStr(x) == [t |-> "str", v |-> x]
PyNone == [t |-> "none", v |-> 0]

MaybeNothing == [nothing |-> TRUE, val |-> PyNone]
MaybeJust(v) == [nothing |-> FALSE, val |-> v]
MaybeOf(v) == IF v = PyNone THEN MaybeNothing ELSE [nothing |-> FALSE, val |-> v]

MaybeFns == {"inc", "half", "nul"}
\* The functions given to map: x + 1; a lookup that gives None on odd x;
\* a function that always gives None.  Arithmetic on None raises TypeError.
ApplyM(f, x) ==
    IF f = "nul" THEN [raised |-> FALSE, val |-> PyNone]
    ELSE IF x.t # "int" THEN [raised |-> TRUE, val |-> PyNone]
    ELSE IF f = "inc" THEN [raised |-> FALSE, val |-> PyInt(x.v + 1)]
    ELSE [raised |-> FALSE, val |-> IF x.v % 2 = 0 THEN PyInt(x.v \div 2) ELSE PyNone]
\* The Maybe-returning functions given to flat_map.
ApplyMBind(f, x) ==
    LET r == ApplyM(f, x) IN
    [raised |-> r.raised, val |-> IF r.val = PyNone THEN MaybeNothing ELSE MaybeJust(r.val)]
IsSmall(x) == x.t = "int" /\ x.v < 2

MCall(op, fn, calls, raised, k) ==
    [op |-> op, fn |-> fn, calls |-> calls, raised |-> raised, k |-> k]

\* map that wraps the result with Maybe.just instead of Maybe.of.
MaybeMapJust(m, f) ==
    IF m.nothing THEN [res |-> MaybeNothing, calls |-> <<>>, raised |-> FALSE]
    ELSE LET r == ApplyM(f, m.val) IN
         [res |-> MaybeJust(r.val), calls |-> <<m.val>>, raised |-> r.raised]

MaybeMap(m, f) ==
    IF m.nothing THEN [res |-> MaybeNothing, calls |-> <<>>, raised |-> FALSE]
    ELSE LET r == ApplyM(f, m.val) IN
         [res |-> MaybeOf(r.val), calls |-> <<m.val>>, raised |-> r.raised]

MaybeFlatMap(m, f) ==
    IF m.nothing THEN [res |-> MaybeNothing, calls |-> <<>>, raised |-> FALSE]
    ELSE LET r == ApplyMBind(f, m.val) IN
         [res |-> r.val, calls |-> <<m.val>>, raised |-> r.raised]

MaybeFilter(m) ==
    IF m.nothing THEN [res |-> m, calls |-> <<>>, raised |-> FALSE]
    ELSE [res |-> IF IsSmall(m.val) THEN m ELSE MaybeNothing,
          calls |-> <<m.val>>, raised |-> FALSE]

\* A call that raises returns nothing: the chain keeps its receiver.
MaybeStep(op, f, r) ==
    /\ mcall.k < MaxChain
    /\ maybe' = IF r.raised THEN maybe ELSE r.res
    /\ mprev' = maybe
    /\ mcall' = MCall(op, f, r.calls, r.raised, mcall.k + 1)
    /\ UNCHANGED notMaybe

MMap(f) == MaybeStep("map", f, MaybeMap(maybe, f))
MFlatMap(f) == MaybeStep("flat_map", f, MaybeFlatMap(maybe, f))
MFilter == MaybeStep("filter", "small", MaybeFilter(maybe))

\* C9: map(fn) on Just(v) invokes fn once, on v, and returns Maybe.of(fn(v)):
\* Nothing exactly when fn(v) is None, Just(fn(v)) otherwise; on Nothing it
\* returns Nothing and does not invoke fn.
C9_MapIsOfFn ==
    (mcall.op = "map" /\ ~mcall.raised)
       => IF mprev.nothing
          THEN maybe.nothing /\ mcall.calls = <<>>
          ELSE LET y == ApplyM(mcall.fn, mprev.val).val IN
               /\ mcall.calls = <<mprev.val>>
               /\ maybe.nothing <=> y.t = "none"
               /\ ~maybe.nothing => maybe.val = y

\* A Just whose function returned None.
C9_Witness ==
    /\ mcall.op = "map"
    /\ mcall.fn = "half"
    /\ ~mprev.nothing
    /\ maybe.nothing

(***************************************************************************)
(* pattern.py.  A pattern is the wildcard, a type, a callable predicate    *)
(* or a literal; a handler is a callable or a plain value.  mvalue,        *)
(* mcases and mdefault are the fields of a Match object (mcases also       *)
(* serves as the *cases of the plain functions); mout is the last call:    *)
(* how it ended, what it returned, the cases whose pattern it evaluated    *)
(* (evald) and the handlers it invoked (ran; 0 is the default handler).    *)
(***************************************************************************)
Pattern(k, nm, val) == [k |-> k, nm |-> nm, val |-> val]
Wild == Pattern("wild", "", PyNone)
TypePat(ty) == Pattern("type", ty, PyNone)
PredPat(nm) == Pattern("pred", nm, PyNone)
LitPat(v) == Pattern("lit", "", v)
Patterns == {Wild, TypePat("int"), TypePat("str"), PredPat("pos"), LitPat(PyInt(5))}

Case(pattern, callable, tag) == [pattern |-> pattern, callable |-> callable, tag |-> tag]

\* The predicate lambda x: x > 0; comparing a str with 0 raises TypeError.
ApplyPredicate(nm, x) ==
    IF x.t = "int" THEN [raised |-> FALSE, val |-> x.v > 0]
    ELSE [raised |-> TRUE, val |-> FALSE]

\* bool(self.pattern(value)) with no try around it: the exception leaves.
CallPatternNoTry(nm, value) ==
    LET r == ApplyPredicate(nm, value) IN
    IF r.raised THEN [st |-> "raise", val |-> FALSE] ELSE [st |-> "ok", val |-> r.val]

\* try: return bool(self.pattern(value)) / except Exception: return False
CallPattern(nm, value) ==
    LET r == ApplyPredicate(nm, value) IN
    IF r.raised THEN [st |-> "caught", val |-> FALSE] ELSE [st |-> "ok", val |-> r.val]

CaseMatches(c, value) ==
    IF c.pattern.k = "wild" THEN TRUE
    ELSE IF c.pattern.k = "type" THEN value.t = c.pattern.nm
    ELSE IF c.pattern.k = "pred" THEN CallPattern(c.pattern.nm, value).val
    ELSE c.pattern.val = value

\* An exception leaves c.matches(value).
CaseRaises(c, value) ==
    c.pattern.k = "pred" /\ CallPattern(c.pattern.nm, value).st = "raise"

\* A callable handler (a case's or the default) divides by the value: it
\* raises ZeroDivisionError on 0.
HandlerRaises(value) == value = PyInt(0)

\* An exception leaves c.execute(value): only a callable handler is run.
CaseExecuteRaises(c, value) == c.callable /\ HandlerRaises(value)

\* handler(value) of a callable handler, the handler itself otherwise.
CaseExecute(c, value) ==
    IF c.callable THEN [tag |-> c.tag, arg |-> value]
    ELSE [tag |-> c.tag, arg |-> PyNone]
NoResult == [tag |-> 0, arg |-> PyNone]

\* The loop that returns at the last accepting case instead of the first.
RECURSIVE LastMatch(_, _, _)
LastMatch(value, cases, i) ==
    IF i > Len(cases) THEN [sel |-> 0, evald |-> <<>>]
    ELSE LET r == LastMatch(value, cases, i + 1) IN
         [sel |-> IF r.sel # 0 THEN r.sel
                  ELSE IF CaseMatches(cases[i], value) THEN i ELSE 0,
          evald |-> <<i>> \o r.evald]

\* for c in cases: if c.matches(value): return c.execute(value)
\* sel is the case that accepted, 0 when the loop ended, -1 when an
\* exception left the loop.
RECURSIVE FirstMatch(_, _, _)
FirstMatch(value, cases, i) ==
    IF i > Len(cases) THEN [sel |-> 0, evald |-> <<>>]
    ELSE IF CaseRaises(cases[i], value) THEN [sel |-> 0 - 1, evald |-> <<i>>]
    ELSE IF CaseMatches(cases[i], value) THEN [sel |-> i, evald |-> <<i>>]
    ELSE LET r == FirstMatch(value, cases, i + 1) IN
         [sel |-> r.sel, evald |-> <<i>> \o r.evald]

Out(fn, status, res, evald, ran) ==
    [fn |-> fn, status |-> status, res |-> res, evald |-> evald, ran |-> ran]

\* return c.execute(value) for the accepted case k: the call ends with the
\* handler's result or with the handler's exception.
ReturnExecute(fn, cases, k, value, evald) ==
    IF CaseExecuteRaises(cases[k], value)
    THEN Out(fn, "ZeroDivisionError", NoResult, evald, <<k>>)
    ELSE Out(fn, "ok", CaseExecute(cases[k], value), evald, <<k>>)

MatchFn(value, cases) ==
    LET r == FirstMatch(value, cases, 1) IN
    IF r.sel < 0 THEN Out("match", "TypeError", NoResult, r.evald, <<>>)
    ELSE IF r.sel # 0
    THEN ReturnExecute("match", cases, r.sel, value, r.evald)
    ELSE Out("match", "ValueError", NoResult, r.evald, <<>>)

\* match_with_default with a try around the handler call: the default is
\* returned when the handler raises.
MatchWithDefaultCatch(value, cases) ==
    LET r == FirstMatch(value, cases, 1) IN
    IF r.sel < 0 THEN Out("match_with_default", "TypeError", NoResult, r.evald, <<>>)
    ELSE IF r.sel # 0
    THEN IF CaseExecuteRaises(cases[r.sel], value)
         THEN Out("match_with_default", "ok", NoResult, r.evald, <<r.sel>>)
         ELSE Out("match_with_default", "ok", CaseExecute(cases[r.sel], value), r.evald, <<r.sel>>)
    ELSE Out("match_with_default", "ok", NoResult, r.evald, <<>>)

MatchWithDefault(value, cases) ==
    LET r == FirstMatch(value, cases, 1) IN
    IF r.sel < 0 THEN Out("match_with_default", "TypeError", NoResult, r.evald, <<>>)
    ELSE IF r.sel # 0
    THEN ReturnExecute("match_with_default", cases, r.sel, value, r.evald)
    ELSE Out("match_with_default", "ok", NoResult, r.evald, <<>>)

\* Match.execute that never looks at default_handler.
MatchExecuteNoDefault(value, cases, default) ==
    LET r == FirstMatch(value, cases, 1) IN
    IF r.sel > 0
    THEN ReturnExecute("execute", cases, r.sel, value, r.evald)
    ELSE Out("execute", "ValueError", NoResult, r.evald, <<>>)

MatchExecute(value, cases, default) ==
    LET r == FirstMatch(value, cases, 1) IN
    IF r.sel < 0 THEN Out("execute", "TypeError", NoResult, r.evald, <<>>)
    ELSE IF r.sel # 0
    THEN ReturnExecute("execute", cases, r.sel, value, r.evald)
    ELSE IF default
    THEN IF HandlerRaises(value)
         THEN Out("execute", "ZeroDivisionError", NoResult, r.evald, <<0>>)
         ELSE Out("execute", "ok", [tag |-> 0, arg |-> value], r.evald, <<0>>)
    ELSE Out("execute", "ValueError", NoResult, r.evald, <<>>)

\* Match.case: appends; the handler of the i-th case is tagged i.
MCase(pattern, callable) ==
    /\ Len(mcases) < MaxCases
    /\ mcases' = Append(mcases, Case(pattern, callable, Len(mcases) + 1))
    /\ mout' = Out("case", "ok", NoResult, <<>>, <<>>)
    /\ UNCHANGED <<mvalue, mdefault, notMatch>>

MDefault ==
    /\ ~mdefault
    /\ mdefault' = TRUE
    /\ mout' = Out("default", "ok", NoResult, <<>>, <<>>)
    /\ UNCHANGED <<mvalue, mcases, notMatch>>

MExecute ==
    /\ mout' = MatchExecute(mvalue, mcases, mdefault)
    /\ UNCHANGED <<mvalue, mcases, mdefault, notMatch>>

MMatch ==
    /\ mout' = MatchFn(mvalue, mcases)
    /\ UNCHANGED <<mvalue, mcases, mdefault, notMatch>>

MMatchWithDefault ==
    /\ mout' = MatchWithDefault(mvalue, mcases)
    /\ UNCHANGED <<mvalue, mcases, mdefault, notMatch>>

Accepting == {i \in 1..Len(mcases) : CaseMatches(mcases[i], mvalue)}
Least(S) == CHOOSE i \in S : \A j \in S : i <= j

\* C10: match, match_with_default and Match.execute select the first case
\* in declaration order whose pattern accepts the value, return that
\* case's handler result (when the handler returns), evaluate the patterns
\* of the cases up to it and of no later case, and invoke no other handler.
C10_FirstMatchWins ==
    (mout.fn \in {"match", "match_with_default", "execute"} /\ Accepting # {})
       => LET k == Least(Accepting) IN
          /\ mout.ran = <<k>>
          /\ mout.evald = [i \in 1..k |-> i]
          /\ ~CaseExecuteRaises(mcases[k], mvalue)
                => /\ mout.status = "ok"
                   /\ mout.res = CaseExecute(mcases[k], mvalue)

\* A predicate case wins over a later literal case that also accepts.
C10_Witness ==
    /\ mout.fn = "match"
    /\ mout.ran = <<1>>
    /\ mout.status = "ok"
    /\ mcases[1].pattern.k = "pred"
    /\ \E j \in 2..Len(mcases) : mcases[j].pattern.k = "lit" /\ j \in Accepting

\* The cases whose callable pattern raises on the value.
Raising ==
    {i \in 1..Len(mcases) :
        mcases[i].pattern.k = "pred" /\ ApplyPredicate(mcases[i].pattern.nm, mvalue).raised}
Evald == {mout.evald[j] : j \in 1..Len(mout.evald)}
Ran == {mout.ran[j] : j \in 1..Len(mout.ran)}
Dispatch == {"match", "match_with_default", "execute"}

\* C11: when the callable pattern of a case raises on the value, the call
\* of match, match_with_default or Match.execute does not end with that
\* exception, the case's handler is not invoked, and the next case in
\* order, if there is one, is evaluated.
C11_RaisingPredicateIsNoMatch ==
    mout.fn \in Dispatch =>
       \A i \in Raising \cap Evald :
          /\ mout.status # "TypeError"
          /\ i \notin Ran
          /\ i < Len(mcases) => (i + 1) \in Evald

\* match on a str: the predicate x > 0 of the first case raised, and the
\* second case was selected.
C11_Witness ==
    /\ mout.fn = "match"
    /\ 1 \in Raising
    /\ mout.status = "ok"
    /\ mout.ran = <<2>>

\* C12: when no case accepts the value, match raises ValueError, and
\* Match.execute invokes the default handler on the value and returns its
\* result when a default was configured and raises ValueError otherwise;
\* when some case accepts, the default handler is not invoked.
C12_NoMatchAndDefault ==
    /\ (mout.fn = "match" /\ Accepting = {})
          => mout.status = "ValueError" /\ mout.ran = <<>>
    /\ (mout.fn = "execute" /\ Accepting = {} /\ mdefault)
          => /\ mout.ran = <<0>>
             /\ ~HandlerRaises(mvalue)
                   => /\ mout.status = "ok"
                      /\ mout.res = [tag |-> 0, arg |-> mvalue]
    /\ (mout.fn = "execute" /\ Accepting = {} /\ ~mdefault)
          => mout.status = "ValueError" /\ mout.ran = <<>>
    /\ (mout.fn \in Dispatch /\ Accepting # {}) => 0 \notin Ran

\* execute with two cases that both reject and a default configured.
C12_Witness ==
    /\ mout.fn = "execute"
    /\ Len(mcases) = 2
    /\ Accepting = {}
    /\ mdefault
    /\ mout.ran = <<0>>
    /\ mout.status = "ok"

\* C30: when the handler of the selected case raises, match,
\* match_with_default and Match.execute end with that exception and return
\* nothing: no later case is evaluated, no other handler runs and the
\* default is not used; when Match's default handler raises, execute ends
\* with its exception.
C30_HandlerErrorPropagates ==
    /\ (mout.fn \in Dispatch /\ Accepting # {}
           /\ CaseExecuteRaises(mcases[Least(Accepting)], mvalue))
          => LET k == Least(Accepting) IN
             /\ mout.status = "ZeroDivisionError"
             /\ mout.res = NoResult
             /\ mout.ran = <<k>>
             /\ \A j \in (k + 1)..Len(mcases) : j \notin Evald
    /\ (mout.fn = "execute" /\ Accepting = {} /\ mdefault /\ HandlerRaises(mvalue))
          => /\ mout.status = "ZeroDivisionError"
             /\ mout.res = NoResult
             /\ mout.ran = <<0>>
    /\ mout.status = "ZeroDivisionError"
          => /\ mout.fn \in Dispatch
             /\ HandlerRaises(mvalue)
             /\ Len(mout.ran) = 1

\* match_with_default: the first case accepts and its handler raises,
\* while the second case would accept too and has a plain value as
\* handler.
C30_Witness ==
    /\ mout.fn = "match_with_default"
    /\ mout.status = "ZeroDivisionError"
    /\ mout.ran = <<1>>
    /\ Len(mcases) >= 2
    /\ 2 \in Accepting
    /\ ~mcases[2].callable

(***************************************************************************)
(* immutable.py.  lists[c] is a Python list object (a cell) and ils[l] the *)
(* cell the l-th ImmutableList holds in _items; dicts and ids likewise     *)
(* for ImmutableDict, a dict cell being a function on its keys.  Every     *)
(* method builds its result in a new cell: an operation returns the heap   *)
(* and the cell of the object it returns.  born and dborn keep what each   *)
(* cell held when it was made; icall is the last call.                     *)
(***************************************************************************)
\* ImmutableList(items) / ImmutableDict(items): list(items), dict(items).
Construct(h, items) == [h |-> Append(h, items), cell |-> Len(h) + 1]

\* items[:n] and items[n:] of a Python list.
PyIndex(l, n) == IF n < 0 THEN Max(Len(l) + n, 0) ELSE Min(n, Len(l))
SliceTo(l, n) == SubSeq(l, 1, PyIndex(l, n))
SliceFrom(l, n) == SubSeq(l, PyIndex(l, n) + 1, Len(l))

Reversed(l) == [i \in 1..Len(l) |-> l[Len(l) + 1 - i]]
RECURSIVE Filtered(_, _)
Filtered(l, p) ==
    IF l = <<>> THEN <<>>
    ELSE (IF ApplyPred(p, Head(l)) THEN <<Head(l)>> ELSE <<>>) \o Filtered(Tail(l), p)

\* sorted(items, key=key, reverse=reverse): stable in both directions.
SortKey(key, x) == IF key = "none" THEN x ELSE x % 2
Before(key, rev, a, b) ==
    IF rev THEN SortKey(key, a) > SortKey(key, b) ELSE SortKey(key, a) < SortKey(key, b)
RECURSIVE Sorted(_, _, _)
Sorted(l, key, rev) ==
    IF l = <<>> THEN <<>>
    ELSE LET x == l[Len(l)]
             s == Sorted(SubSeq(l, 1, Len(l) - 1), key, rev)
             q == Cardinality({i \in 1..Len(s) : ~Before(key, rev, x, s[i])})
         IN SubSeq(s, 1, q) \o <<x>> \o SubSeq(s, q + 1, Len(s))

ListAppend(h, c, item) == Construct(h, Append(h[c], item))
ListPrepend(h, c, item) == Construct(h, <<item>> \o h[c])
ListConcat(h, c, o) == Construct(h, h[c] \o h[o])
ListMap(h, c, f) == Construct(h, [i \in 1..Len(h[c]) |-> ApplyFn(f, h[c][i])])
ListFilter(h, c, p) == Construct(h, Filtered(h[c], p))
\* take that gives nothing when asked for more than there is.
ListTakeStrict(h, c, n) == Construct(h, IF n > Len(h[c]) THEN <<>> ELSE SliceTo(h[c], n))

ListTake(h, c, n) == Construct(h, SliceTo(h[c], n))
ListDrop(h, c, n) == Construct(h, SliceFrom(h[c], n))
ListReverse(h, c) == Construct(h, Reversed(h[c]))

\* sort with self._items.sort(...) instead of sorted(self._items, ...).
ListSortInPlace(h, c, key, rev) ==
    LET h1 == [h EXCEPT ![c] = Sorted(h[c], key, rev)] IN Construct(h1, h1[c])

ListSort(h, c, key, rev) == Construct(h, Sorted(h[c], key, rev))

Keys == {"a", "b"}
DictCopySet(d, k, v) == [x \in DOMAIN d \cup {k} |-> IF x = k THEN v ELSE d[x]]
DictCopyDel(d, k) == [x \in DOMAIN d \ {k} |-> d[x]]
\* update in which the receiver's value wins on a conflict.
DictMergeSelfWins(d, o) == [x \in DOMAIN d \cup DOMAIN o |-> IF x \in DOMAIN d THEN d[x] ELSE o[x]]
DictMerge(d, o) == [x \in DOMAIN d \cup DOMAIN o |-> IF x \in DOMAIN o THEN o[x] ELSE d[x]]

DictSet(h, c, k, v) == Construct(h, DictCopySet(h[c], k, v))
DictDelete(h, c, k) == Construct(h, DictCopyDel(h[c], k))
DictUpdate(h, c, o) == Construct(h, DictMerge(h[c], h[o]))

\* arg is the argument of the call: a count, a key, <<key, value>>, or
\* the other object.
ICall(op, self, arg, res) == [op |-> op, self |-> self, arg |-> arg, res |-> res]

\* A method of the l-th ImmutableList returned r.
ListStep(op, l, arg, r) ==
    /\ Len(ils) < MaxObjs
    /\ lists' = r.h
    /\ ils' = Append(ils, r.cell)
    /\ born' = born \o SubSeq(r.h, Len(lists) + 1, Len(r.h))
    /\ icall' = ICall(op, l, arg, Len(ils) + 1)
    /\ UNCHANGED <<dicts, ids, dborn, notImm>>

LAppend(l, x) == l \in 1..Len(ils) /\ ListStep("append", l, x, ListAppend(lists, ils[l], x))
LPrepend(l, x) == l \in 1..Len(ils) /\ ListStep("prepend", l, x, ListPrepend(lists, ils[l], x))
LConcat(l, o) ==
    /\ l \in 1..Len(ils) /\ o \in 1..Len(ils)
    /\ ListStep("concat", l, o, ListConcat(lists, ils[l], ils[o]))
LMap(l, f) == l \in 1..Len(ils) /\ ListStep("map", l, f, ListMap(lists, ils[l], f))
LFilter(l, p) == l \in 1..Len(ils) /\ ListStep("filter", l, p, ListFilter(lists, ils[l], p))
LTake(l, n) == l \in 1..Len(ils) /\ ListStep("take", l, n, ListTake(lists, ils[l], n))
LDrop(l, n) == l \in 1..Len(ils) /\ ListStep("drop", l, n, ListDrop(lists, ils[l], n))
LReverse(l) == l \in 1..Len(ils) /\ ListStep("reverse", l, 0, ListReverse(lists, ils[l]))
LSort(l, key, rev) == l \in 1..Len(ils) /\ ListStep("sort", l, <<key, rev>>, ListSort(lists, ils[l], key, rev))

\* A method of the d-th ImmutableDict returned r.
DictStep(op, d, arg, r) ==
    /\ Len(ids) < MaxObjs
    /\ dicts' = r.h
    /\ ids' = Append(ids, r.cell)
    /\ dborn' = dborn \o SubSeq(r.h, Len(dicts) + 1, Len(r.h))
    /\ icall' = ICall(op, d, arg, Len(ids) + 1)
    /\ UNCHANGED <<lists, ils, born, notImm>>

DSet(d, k, v) == d \in 1..Len(ids) /\ DictStep("set", d, <<k, v>>, DictSet(dicts, ids[d], k, v))
DDelete(d, k) == d \in 1..Len(ids) /\ DictStep("delete", d, k, DictDelete(dicts, ids[d], k))
DUpdate(d, o) ==
    /\ d \in 1..Len(ids) /\ o \in 1..Len(ids)
    /\ DictStep("update", d, o, DictUpdate(dicts, ids[d], ids[o]))

\* C2: after any sequence of mutator calls every list cell and every dict
\* cell holds what it held when it was made, so the receiver and the
\* argument of each call still have their contents; each call returned a
\* new object, and no two objects share a cell.
C2_MutatorsLeaveReceiver ==
    /\ lists = born
    /\ dicts = dborn
    /\ \A a, b \in 1..Len(ils) : a # b => ils[a] # ils[b]
    /\ \A a, b \in 1..Len(ids) : a # b => ids[a] # ids[b]
    /\ icall.op # "none" =>
          icall.res # icall.self /\ icall.res = Max(Len(ils), Len(ids))

\* A sort that reordered: the receiver keeps its unsorted contents.
C2_Witness ==
    /\ icall.op = "sort"
    /\ lists[ils[icall.res]] # lists[ils[icall.self]]
    /\ lists[ils[icall.self]] = <<3, 1, 2>>

(***************************************************************************)
(* compose.py: memoize.  cache[w] is the dict in the closure of the w-th   *)
(* wrapper made from one function fn; a dict is a function on its keys.    *)
(* An argument tuple is a sequence of Python values; a dict finds a key by *)
(* hash and ==, under which True and 1 are the same key.  minv[w][k] is    *)
(* how often wrapper w invoked fn on a tuple with key k, cprev the caches  *)
(* before the last call, mlast the last call.                              *)
(***************************************************************************)
PyTrue == [t |-> "bool", v |-> 1]
ArgTuples == {<<PyInt(0)>>, <<PyInt(1)>>, <<PyTrue>>, <<PyInt(2)>>, <<PyInt(1), PyInt(2)>>}

\* The tuple as a dict key: equal tuples have the same key.
KeyOf(args) == [i \in 1..Len(args) |-> args[i].v]
ArgKeys == {KeyOf(a) : a \in ArgTuples}

\* fn(*args): 10 // args[0] tagged with the type of args[0]; raises
\* ZeroDivisionError on 0.
Fn(args) ==
    IF args[1].v = 0 THEN [raised |-> TRUE, val |-> <<>>]
    ELSE [raised |-> FALSE, val |-> <<args[1].t, 10 \div args[1].v, Len(args)>>]

MemoCall(w, args, status, res, ran) ==
    [w |-> w, args |-> args, status |-> status, res |-> res, ran |-> ran]
NoMemoCall == MemoCall(0, <<>>, "none", <<>>, FALSE)

DictPut(d, k, v) == [x \in DOMAIN d \cup {k} |-> IF x = k THEN v ELSE d[x]]

\* memoized with one cache for all wrappers: a key any wrapper cached
\* is a hit.
MemoizedShared(c, w, args) ==
    LET k == KeyOf(args)
        o == {x \in 1..Len(c) : k \in DOMAIN c[x]}
    IN IF o # {}
       THEN [c |-> c, status |-> "ok", res |-> c[CHOOSE x \in o : TRUE][k], ran |-> FALSE]
       ELSE LET r == Fn(args) IN
            IF r.raised THEN [c |-> c, status |-> "raise", res |-> <<>>, ran |-> TRUE]
            ELSE [c |-> [c EXCEPT ![w] = DictPut(@, k, r.val)],
                  status |-> "ok", res |-> r.val, ran |-> TRUE]

\* memoized that never stores the result.
MemoizedNoStore(c, w, args) ==
    LET r == Fn(args) IN
    IF r.raised THEN [c |-> c, status |-> "raise", res |-> <<>>, ran |-> TRUE]
    ELSE [c |-> c, status |-> "ok", res |-> r.val, ran |-> TRUE]

\* memoized that puts the key in the cache before fn returns: after fn
\* raised, the key is there with no result.
MemoizedStoreFirst(c, w, args) ==
    LET k == KeyOf(args) IN
    IF k \in DOMAIN c[w]
    THEN [c |-> c, status |-> "ok", res |-> c[w][k], ran |-> FALSE]
    ELSE LET r == Fn(args) IN
         IF r.raised
         THEN [c |-> [c EXCEPT ![w] = DictPut(@, k, <<>>)],
               status |-> "raise", res |-> <<>>, ran |-> TRUE]
         ELSE [c |-> [c EXCEPT ![w] = DictPut(@, k, r.val)],
               status |-> "ok", res |-> r.val, ran |-> TRUE]

\* memoized(*args) of wrapper w, c being the caches of all wrappers.
Memoized(c, w, args) ==
    LET k == KeyOf(args) IN
    IF k \in DOMAIN c[w]
    THEN [c |-> c, status |-> "ok", res |-> c[w][k], ran |-> FALSE]
    ELSE LET r == Fn(args) IN
         IF r.raised THEN [c |-> c, status |-> "raise", res |-> <<>>, ran |-> TRUE]
         ELSE [c |-> [c EXCEPT ![w] = DictPut(@, k, r.val)],
               status |-> "ok", res |-> r.val, ran |-> TRUE]

RECURSIVE SumInv(_)
SumInv(S) ==
    IF S = {} THEN 0
    ELSE LET e == CHOOSE x \in S : TRUE IN minv[e[1]][e[2]] + SumInv(S \ {e})
TotalInv == SumInv((1..Len(minv)) \X ArgKeys)

\* memoize(fn): a new wrapper with an empty cache.
Memoize ==
    /\ Len(cache) < MaxWrappers
    /\ cache' = Append(cache, <<>>)
    /\ cprev' = cache
    /\ minv' = Append(minv, [k \in ArgKeys |-> 0])
    /\ mlast' = MemoCall(Len(cache) + 1, <<>>, "memoize", <<>>, FALSE)
    /\ UNCHANGED <<curryVars, composeVars, notFn>>

\* A call of wrapper w.
MemoizedCall(w, args) ==
    /\ w \in 1..Len(cache)
    /\ TotalInv < MaxCalls
    /\ LET r == Memoized(cache, w, args) IN
       /\ cache' = r.c
       /\ cprev' = cache
       /\ minv' = IF r.ran THEN [minv EXCEPT ![w][KeyOf(args)] = @ + 1] ELSE minv
       /\ mlast' = MemoCall(w, args, r.status, r.res, r.ran)
    /\ UNCHANGED <<curryVars, composeVars, notFn>>

\* C13: in one memoized wrapper, fn is invoked once for each distinct
\* argument tuple on which it returns, on the first call with that tuple;
\* a later call with an equal tuple invokes nothing and returns the stored
\* result; a call of one wrapper neither reads nor changes the cache of
\* another wrapper of the same fn.
C13_MemoizeOncePerTuple ==
    /\ \A w \in 1..Len(cache) : \A k \in ArgKeys :
          /\ k \in DOMAIN cache[w] => minv[w][k] = 1
          /\ (k \notin DOMAIN cache[w] /\ \E a \in ArgTuples : KeyOf(a) = k /\ ~Fn(a).raised)
                => minv[w][k] = 0
    /\ mlast.status \in {"ok", "raise"} =>
          LET w == mlast.w
              k == KeyOf(mlast.args)
          IN /\ k \in DOMAIN cprev[w]
                   => ~mlast.ran /\ mlast.res = cprev[w][k] /\ cache = cprev
             /\ k \notin DOMAIN cprev[w] => mlast.ran
             /\ \A x \in 1..Len(cache) : x # w => cache[x] = cprev[x]

\* The second wrapper is called on a tuple the first has cached and that
\* it has already cached itself: it answers from its own cache, having
\* invoked fn once.
C13_Witness ==
    /\ mlast.w = 2
    /\ mlast.status = "ok"
    /\ ~mlast.ran
    /\ mlast.args = <<PyTrue>>
    /\ mlast.res = Fn(<<PyInt(1)>>).val
    /\ KeyOf(mlast.args) \in DOMAIN cache[1]
    /\ minv[2][KeyOf(mlast.args)] = 1

(***************************************************************************)
(* lazy.py: the lazy decorator.  lcache[w] is the dict in the closure of   *)
(* the w-th wrapper made from one zero-argument function fn.  fn is not    *)
(* pure: its k-th invocation either raises or returns k.  linv[w] counts   *)
(* the calls of wrapper w, the invocations of fn it made and how many of   *)
(* them raised; lcprev is the caches before the last call, llast the last  *)
(* call, lruns the invocations of fn so far.                               *)
(***************************************************************************)
LazyFn(k, raises) ==
    IF raises THEN [raised |-> TRUE, val |-> 0] ELSE [raised |-> FALSE, val |-> k]

LazyCallRec(w, status, res, ran) == [w |-> w, status |-> status, res |-> res, ran |-> ran]
NoLazyCall == LazyCallRec(0, "none", 0, FALSE)

\* wrapper that never stores: fn runs on every call.
LazyWrapperNoStore(c, k, raises) ==
    LET r == LazyFn(k, raises) IN
    IF r.raised THEN [c |-> c, status |-> "raise", res |-> 0, ran |-> TRUE]
    ELSE [c |-> c, status |-> "ok", res |-> r.val, ran |-> TRUE]

\* wrapper() on the cache c, fn being about to run for the k-th time.
LazyWrapper(c, k, raises) ==
    IF "value" \in DOMAIN c
    THEN [c |-> c, status |-> "ok", res |-> c["value"], ran |-> FALSE]
    ELSE LET r == LazyFn(k, raises) IN
         IF r.raised THEN [c |-> c, status |-> "raise", res |-> 0, ran |-> TRUE]
         ELSE [c |-> DictPut(c, "value", r.val), status |-> "ok", res |-> r.val, ran |-> TRUE]

\* lazy(fn): a new wrapper with an empty cache.
Lazy ==
    /\ Len(lcache) < MaxWrappers
    /\ lcache' = Append(lcache, <<>>)
    /\ lcprev' = lcache
    /\ linv' = Append(linv, [calls |-> 0, runs |-> 0, raises |-> 0])
    /\ llast' = LazyCallRec(Len(lcache) + 1, "lazy", 0, FALSE)
    /\ UNCHANGED <<lruns, notOnce>>

\* A call of wrapper w.
LazyCall(w, raises) ==
    /\ w \in 1..Len(lcache)
    /\ lruns < MaxCalls
    /\ linv[w].calls < MaxCalls
    /\ LET r == LazyWrapper(lcache[w], lruns + 1, raises) IN
       /\ lcache' = [lcache EXCEPT ![w] = r.c]
       /\ lcprev' = lcache
       /\ linv' = [linv EXCEPT ![w] =
                      [calls |-> @.calls + 1,
                       runs |-> @.runs + (IF r.ran THEN 1 ELSE 0),
                       raises |-> @.raises + (IF r.status = "raise" THEN 1 ELSE 0)]]
       /\ llast' = LazyCallRec(w, r.status, r.res, r.ran)
       /\ lruns' = IF r.ran THEN lruns + 1 ELSE lruns
    /\ UNCHANGED notOnce

\* The invocations of fn made by the first n wrappers.
RECURSIVE WrapperRuns(_)
WrapperRuns(n) == IF n = 0 THEN 0 ELSE linv[n].runs + WrapperRuns(n - 1)

\* C25: decorating fn with lazy invokes nothing; a wrapper whose fn never
\* raised has invoked fn exactly once however often it was called, on its
\* first call, and every later call returns the result of that invocation
\* without running fn; wrappers of the same fn do not share the result.
C25_LazyRunsOnce ==
    /\ lruns = WrapperRuns(Len(linv))
    /\ llast.status = "lazy"
          => /\ lcache[llast.w] = <<>>
             /\ linv[llast.w].runs = 0
             /\ \A w \in 1..Len(lcprev) : lcache[w] = lcprev[w]
    /\ \A w \in 1..Len(lcache) :
          /\ linv[w].calls = 0 => linv[w].runs = 0 /\ lcache[w] = <<>>
          /\ (linv[w].calls >= 1 /\ linv[w].raises = 0)
                => linv[w].runs = 1 /\ "value" \in DOMAIN lcache[w]
    /\ llast.status \in {"ok", "raise"}
          => LET w == llast.w IN
             /\ "value" \in DOMAIN lcprev[w]
                   => /\ ~llast.ran /\ llast.status = "ok"
                      /\ llast.res = lcprev[w]["value"]
                      /\ lcache = lcprev
             /\ "value" \notin DOMAIN lcprev[w] => llast.ran
             /\ (llast.ran /\ llast.status = "ok")
                   => llast.res = lruns /\ lcache[w]["value"] = lruns
             /\ \A x \in 1..Len(lcache) : x # w => lcache[x] = lcprev[x]

\* The third call of a wrapper whose fn returned on the first: fn has run
\* once for it, and the call returns what the first returned, which is not
\* what fn would return now.
C25_Witness ==
    /\ llast.status = "ok"
    /\ ~llast.ran
    /\ linv[llast.w].calls = 3
    /\ linv[llast.w].runs = 1
    /\ linv[llast.w].raises = 0
    /\ llast.res # lruns

\* C29: when fn raises inside a memoized wrapper or a lazy wrapper, the
\* call raises too and the cache is as it was: the next call with the same
\* arguments invokes fn again, and every entry cached before the failing
\* call is still returned without invoking fn.
C29_RaiseLeavesCache ==
    /\ mlast.status = "raise"
          => LET w == mlast.w IN
             /\ mlast.ran
             /\ Fn(mlast.args).raised
             /\ cache = cprev
             /\ KeyOf(mlast.args) \notin DOMAIN cache[w]
             /\ Memoized(cache, w, mlast.args).ran
             /\ \A a \in ArgTuples :
                   KeyOf(a) \in DOMAIN cprev[w]
                      => LET r == Memoized(cache, w, a) IN
                         ~r.ran /\ r.status = "ok" /\ r.res = cprev[w][KeyOf(a)]
    /\ llast.status = "raise"
          => LET w == llast.w IN
             /\ llast.ran
             /\ lcache = lcprev
             /\ lcache[w] = <<>>
             /\ \A raises \in BOOLEAN : LazyWrapper(lcache[w], lruns + 1, raises).ran
    /\ \A w \in 1..Len(lcache) :
          linv[w].runs = linv[w].raises + (IF "value" \in DOMAIN lcache[w] THEN 1 ELSE 0)

\* A memoized wrapper that holds a result is called a second time on the
\* arguments fn raises on: fn has now run twice on them.
C29_Witness ==
    /\ mlast.status = "raise"
    /\ minv[mlast.w][KeyOf(mlast.args)] = 2
    /\ cache[mlast.w] # <<>>

(***************************************************************************)
(* compose.py: curry.  parts[p] is the args tuple in the closure of the    *)
(* p-th callable: parts[1] is curried itself, called with nothing yet, the *)
(* others are the partial closures it returned.  pborn is what each        *)
(* closure captured when it was made, chain[p] the argument tuples of the  *)
(* successive calls that led to closure p, clog the calls made so far.     *)
(***************************************************************************)
NumParams == 3
CurryArgs == {1, 2}
\* The positional arguments of one call: none, one or two.
MoreArgs == {<<>>} \cup {<<a>> : a \in CurryArgs} \cup {<<a, b>> : a, b \in CurryArgs}

\* fn(*args) for def fn(a, b, c); any other number of arguments is a
\* TypeError of the call.
Fn3(args) ==
    IF Len(args) = NumParams
    THEN [status |-> "value", res |-> args[1] * 100 + args[2] * 10 + args[3]]
    ELSE [status |-> "TypeError", res |-> 0]

\* partial that keeps its arguments in a list it extends on every call.
CurriedAccumulating(h, p, more) ==
    LET combined == h[p] \o more IN
    IF Len(combined) >= NumParams
    THEN [h |-> [h EXCEPT ![p] = combined], status |-> Fn3(combined).status,
          res |-> Fn3(combined).res, new |-> 0]
    ELSE [h |-> Append([h EXCEPT ![p] = combined], combined),
          status |-> "partial", res |-> 0, new |-> Len(h) + 1]

\* partial that puts the new arguments before the captured ones.
CurriedPrepending(h, p, more) ==
    LET combined == more \o h[p] IN
    IF Len(combined) >= NumParams
    THEN [h |-> h, status |-> Fn3(combined).status, res |-> Fn3(combined).res, new |-> 0]
    ELSE [h |-> Append(h, combined), status |-> "partial", res |-> 0, new |-> Len(h) + 1]

\* Closure p called with more: curried(*(args + more_args)).
Curried(h, p, more) ==
    LET combined == h[p] \o more IN
    IF Len(combined) >= NumParams
    THEN [h |-> h, status |-> Fn3(combined).status, res |-> Fn3(combined).res, new |-> 0]
    ELSE [h |-> Append(h, combined), status |-> "partial", res |-> 0, new |-> Len(h) + 1]

CurryCall(p, more, status, res, new) ==
    [p |-> p, more |-> more, status |-> status, res |-> res, new |-> new]

CurriedCall(p, more) ==
    /\ p \in 1..Len(parts)
    /\ Len(clog) < MaxCurry
    /\ LET r == Curried(parts, p, more) IN
       /\ parts' = r.h
       /\ pborn' = pborn \o SubSeq(r.h, Len(parts) + 1, Len(r.h))
       /\ chain' = IF r.new # 0 THEN Append(chain, Append(chain[p], more)) ELSE chain
       /\ clog' = Append(clog, CurryCall(p, more, r.status, r.res, r.new))
    /\ UNCHANGED <<memoVars, composeVars, notFn>>

RECURSIVE Flatten(_)
Flatten(ss) == IF ss = <<>> THEN <<>> ELSE Head(ss) \o Flatten(Tail(ss))

\* C14: a closure returned by curry keeps the arguments it captured however
\* often and in whatever order it is invoked, and each invocation gives
\* what fn gives on the captured arguments followed by that invocation's
\* arguments (a new closure over them while fewer than fn's parameters
\* are supplied).
C14_PartialsAreIndependent ==
    /\ parts = pborn
    /\ \A i \in 1..Len(clog) :
          LET c == clog[i]
              all == pborn[c.p] \o c.more
          IN IF Len(all) >= NumParams
             THEN c.status = Fn3(all).status /\ c.res = Fn3(all).res /\ c.new = 0
             ELSE c.status = "partial" /\ c.new \in 1..Len(parts) /\ pborn[c.new] = all

\* times_two = multiply(2); times_two(1, 2) and then times_two(2, 1): one
\* partial invoked twice with different remaining arguments.
C14_Witness ==
    \E i, j \in 1..Len(clog) :
       /\ i < j
       /\ clog[i].p = clog[j].p /\ clog[i].p # 1
       /\ clog[i].more # clog[j].more
       /\ clog[i].status = "value" /\ clog[j].status = "value"
       /\ clog[i].res # clog[j].res

ComposeFns == {"dbl", "inc", "neg"}
ApplyBase(nm, x) == IF nm = "neg" THEN 0 - x ELSE ApplyFn(nm, x)
BaseFn(nm, ix) == [k |-> "base", nm |-> nm, ix |-> ix]
Identity == [k |-> "id"]

\* _compose(f, g): the closure `composed`.
ComposeTwo(f, g) == [k |-> "composed", f |-> f, g |-> g]

\* callable(x); composed(x) is f(g(x)).
RECURSIVE CallFn(_, _)
CallFn(c, x) ==
    IF c.k = "id" THEN [v |-> x, log |-> <<>>]
    ELSE IF c.k = "base" THEN [v |-> ApplyBase(c.nm, x), log |-> <<c.ix>>]
    ELSE LET inner == CallFn(c.g, x)
             outer == CallFn(c.f, inner.v)
         IN [v |-> outer.v, log |-> inner.log \o outer.log]

\* functools.reduce(_compose, functions), acc being the result so far.
RECURSIVE ReduceCompose(_, _)
ReduceCompose(acc, rest) ==
    IF rest = <<>> THEN acc ELSE ReduceCompose(ComposeTwo(acc, Head(rest)), Tail(rest))

\* compose whose closures apply the left function first: g(f(x)).
ComposeLeftFirst(functions) ==
    LET RECURSIVE R(_, _)
        R(acc, rest) == IF rest = <<>> THEN acc ELSE R(ComposeTwo(Head(rest), acc), Tail(rest))
    IN IF functions = <<>> THEN Identity ELSE R(Head(functions), Tail(functions))

Compose(functions) ==
    IF functions = <<>> THEN Identity
    ELSE ReduceCompose(Head(functions), Tail(functions))

\* pipe that hands the functions to compose as they are.
PipeUnreversed(functions) == Compose(functions)

Pipe(functions) == Compose(Reversed(functions))

ComposeOut(op, r) == [op |-> op, v |-> r.v, log |-> r.log]

CallCompose ==
    /\ cout' = ComposeOut("compose", CallFn(Compose(cfuns), cx))
    /\ UNCHANGED <<cfuns, cx, memoVars, curryVars, notFn>>

CallPipe ==
    /\ cout' = ComposeOut("pipe", CallFn(Pipe(cfuns), cx))
    /\ UNCHANGED <<cfuns, cx, memoVars, curryVars, notFn>>

\* f1(f2(...fn(x))) for the functions fs[i..Len(fs)].
RECURSIVE Nested(_, _, _)
Nested(fs, i, x) ==
    IF i > Len(fs) THEN x ELSE ApplyBase(fs[i].nm, Nested(fs, i + 1, x))

\* C16: compose(f1, ..., fn)(x) is f1(f2(...fn(x))), fn being applied first
\* and f1 last; pipe(f1, ..., fn)(x) is compose(fn, ..., f1)(x), f1 being
\* applied first; with no functions both return x.
C16_ComposeAndPipe ==
    LET n == Len(cfuns) IN
    /\ cout.op = "compose"
          => /\ cout.v = Nested(cfuns, 1, cx)
             /\ cout.log = [i \in 1..n |-> n + 1 - i]
    /\ cout.op = "pipe"
          => /\ cout.v = Nested(Reversed(cfuns), 1, cx)
             /\ cout.v = CallFn(Compose(Reversed(cfuns)), cx).v
             /\ cout.log = [i \in 1..n |-> i]
    /\ (cout.op \in {"compose", "pipe"} /\ n = 0) => cout.v = cx

\* pipe of three functions, on an input where compose of the same three
\* gives another value.
C16_Witness ==
    /\ cout.op = "pipe"
    /\ Len(cfuns) = 3
    /\ cout.v # CallFn(Compose(cfuns), cx).v

\* C18: d.set(k, v) maps k to v and agrees with d on every other key;
\* d.delete(k) has d's keys but k and agrees with d on them, so it equals d
\* when k is absent; d.update(o) has the keys of both, o's value on every
\* key of o and d's value on the others.
C18_DictSetDeleteUpdate ==
    icall.op \in {"set", "delete", "update"} =>
       LET d == dborn[ids[icall.self]]
           r == dicts[ids[icall.res]]
       IN /\ icall.op = "set"
                => LET k == icall.arg[1] IN
                   /\ DOMAIN r = DOMAIN d \cup {k}
                   /\ r[k] = icall.arg[2]
                   /\ \A x \in DOMAIN d \ {k} : r[x] = d[x]
          /\ icall.op = "delete"
                => /\ DOMAIN r = DOMAIN d \ {icall.arg}
                   /\ \A x \in DOMAIN r : r[x] = d[x]
                   /\ icall.arg \notin DOMAIN d => r = d
          /\ icall.op = "update"
                => LET o == dborn[ids[icall.arg]] IN
                   /\ DOMAIN r = DOMAIN d \cup DOMAIN o
                   /\ \A x \in DOMAIN o : r[x] = o[x]
                   /\ \A x \in DOMAIN d \ DOMAIN o : r[x] = d[x]

\* update with an argument that has another value for a key of the
\* receiver: the result has the argument's value.
C18_Witness ==
    /\ icall.op = "update"
    /\ LET d == dborn[ids[icall.self]]
           o == dborn[ids[icall.arg]]
       IN \E x \in DOMAIN d \cap DOMAIN o :
             d[x] # o[x] /\ dicts[ids[icall.res]][x] = o[x]

\* C19: for n >= len, take(n) is the whole list in its order and drop(n)
\* the empty list; for 0 <= n <= len, take(n) is the first n elements and
\* drop(n) the elements after them.
C19_TakeDropClamp ==
    (icall.op \in {"take", "drop"} /\ icall.arg >= 0) =>
       LET l == born[ils[icall.self]]
           r == lists[ils[icall.res]]
           n == icall.arg
       IN /\ (icall.op = "take" /\ n >= Len(l)) => r = l
          /\ (icall.op = "drop" /\ n >= Len(l)) => r = <<>>
          /\ (icall.op = "take" /\ n <= Len(l)) => r = SubSeq(l, 1, n)
          /\ (icall.op = "drop" /\ n <= Len(l)) => r = SubSeq(l, n + 1, Len(l))

\* take(n) of a list of two elements with n beyond its length.
C19_Witness ==
    /\ icall.op = "take"
    /\ Len(born[ils[icall.self]]) = 2
    /\ icall.arg > 2
    /\ lists[ils[icall.res]] = born[ils[icall.self]]

(***************************************************************************)
(* The specifications.  Each runs one component from its constructors;    *)
(* the variables of the other components stay at their idle values.        *)
(***************************************************************************)
NoECall == ECall("none", <<>>, <<>>, <<>>, 0, 0)
NoMCall == MCall("none", "", <<>>, FALSE, 0)
LazyIdle == its = <<>> /\ seqs = <<>> /\ prev = <<>> /\ last = NoCall
EitherIdle == either = Right(0) /\ eprev = Right(0) /\ ecall = NoECall /\ ecalls = 0
MaybeIdle == maybe = MaybeNothing /\ mprev = MaybeNothing /\ mcall = NoMCall
MatchIdle == mvalue = PyNone /\ mcases = <<>> /\ mdefault = FALSE /\ mout = Out("none", "ok", NoResult, <<>>, <<>>)
ImmIdle ==
    /\ lists = <<>> /\ ils = <<>> /\ dicts = <<>> /\ ids = <<>>
    /\ born = <<>> /\ dborn = <<>> /\ icall = ICall("none", 0, 0, 0)
MemoIdle == cache = <<>> /\ cprev = <<>> /\ minv = <<>> /\ mlast = NoMemoCall
CurryIdle == parts = <<>> /\ pborn = <<>> /\ chain = <<>> /\ clog = <<>>
NoComposeCall == [op |-> "none", v |-> 0, log |-> <<>>]
ComposeIdle == cfuns = <<>> /\ cx = 0 /\ cout = NoComposeCall
OnceIdle == lcache = <<>> /\ lcprev = <<>> /\ linv = <<>> /\ llast = NoLazyCall /\ lruns = 0
FnIdle == MemoIdle /\ CurryIdle /\ ComposeIdle /\ OnceIdle
PyVals == {PyNone, PyInt(0), PyInt(1), PyInt(2), PyInt(3)}

\* lazy.py: one source sequence, range(end) or infinite(1), and the core methods.
InitLazy ==
    /\ \E nd \in {Range(e) : e \in 0..MaxLen} \cup {Infinite(1)} : its = <<nd>>
    /\ seqs = <<1>>
    /\ prev = <<>>
    /\ last = NoCall
    /\ EitherIdle /\ MaybeIdle /\ MatchIdle /\ ImmIdle /\ FnIdle

NextLazy ==
    \/ Map(Newest, "dbl")
    \/ Filter(Newest, "even")
    \/ \E n \in 0..MaxN : Take(Newest, n)
    \/ \E n \in -1..MaxN : Drop(Newest, n)
    \/ \E s \in 1..MaxSeqs : ToList(s)
    \/ \E s \in 1..MaxSeqs : HeadOp(s)
    \/ \E s \in 1..MaxSeqs : Reduce(s, 0)
    \/ \E s \in 1..MaxSeqs : IterNext(s)

SpecLazy == InitLazy /\ [][NextLazy]_vars

\* lazy.py: take and the eight deferred transformation methods; the source
\* may also be from_iterable(list).
Short == Len(seqs) < MaxStages

InitLazyT ==
    /\ \E nd \in {Range(e) : e \in 0..MaxLen} \cup {Infinite(1)}
                 \cup {FromIterable(l) : l \in Samples} : its = <<nd>>
    /\ seqs = <<1>>
    /\ prev = <<>>
    /\ last = NoCall
    /\ EitherIdle /\ MaybeIdle /\ MatchIdle /\ ImmIdle /\ FnIdle

NextLazyT ==
    \/ Short /\ Map(Newest, "inc")
    \/ Short /\ Filter(Newest, "small")
    \/ Short /\ \E n \in 0..MaxN : Take(Newest, n)
    \/ Short /\ TakeWhile(Newest, "small")
    \/ Short /\ DropWhile(Newest, "small")
    \/ Short /\ \E f \in FlatFns : FlatMap(Newest, f)
    \/ Short /\ \E o \in 1..MaxStages : ZipWith(Newest, o)
    \/ Short /\ Scan(Newest, 5)
    \/ Short /\ \E n \in 1..MaxChunk : Chunk(Newest, n)
    \/ \E s \in 1..MaxStages : ToList(s)
    \/ \E s \in 1..MaxStages : HeadOp(s)

SpecLazyT == InitLazyT /\ [][NextLazyT]_vars

\* lazy.py: the pipeline infinite(start).filter(p).take(n), start from
\* -MaxBack on, with terminal operations on each of its three sequences.
InitInfinite ==
    /\ \E start \in (0 - MaxBack)..1 : its = <<Infinite(start)>>
    /\ seqs = <<1>>
    /\ prev = <<>>
    /\ last = NoCall
    /\ EitherIdle /\ MaybeIdle /\ MatchIdle /\ ImmIdle /\ FnIdle

NextInfinite ==
    \/ Newest = 1 /\ \E p \in Preds : Filter(Newest, p)
    \/ Newest = 2 /\ \E n \in 0..MaxPick : Take(Newest, n)
    \/ \E s \in 1..3 : ToList(s)
    \/ \E s \in 1..3 : HeadOp(s)

SpecInfinite == InitInfinite /\ [][NextInfinite]_vars

\* lazy.py: two separate sources a and b, a.zip_with(b, fn) or
\* b.zip_with(a, fn), and terminal operations on the three sequences.
InitZip ==
    /\ \E a, b \in {Range(e) : e \in 0..MaxLen} \cup {FromIterable(l) : l \in Samples} :
          its = <<a, b>>
    /\ seqs = <<1, 2>>
    /\ prev = <<>>
    /\ last = NoCall
    /\ EitherIdle /\ MaybeIdle /\ MatchIdle /\ ImmIdle /\ FnIdle

NextZip ==
    \/ Len(seqs) = 2 /\ \E s, o \in 1..2 : s # o /\ ZipWith(s, o)
    \/ \E s \in 1..3 : ToList(s)
    \/ \E s \in 1..3 : HeadOp(s)

SpecZip == InitZip /\ [][NextZip]_vars

InitEither ==
    /\ either \in {Left(0 - 1), Left(0 - 2), Right(0), Right(1), Right(2)}
    /\ eprev = either
    /\ ecall = NoECall
    /\ ecalls = 0
    /\ LazyIdle /\ MaybeIdle /\ MatchIdle /\ ImmIdle /\ FnIdle

NextEither ==
    \/ \E f \in MapFns : EMap(f)
    \/ EMapLeft("dbl")
    \/ \E f \in BindFns : EFlatMap(f)
    \/ ESwap
    \/ EFold
    \/ EGetLeft
    \/ EGetRight
    \/ \E d \in {0, 7} : EGetOrElse(d)

SpecEither == InitEither /\ [][NextEither]_vars

InitMaybe ==
    /\ maybe \in {MaybeOf(v) : v \in PyVals} \cup {MaybeJust(v) : v \in PyVals}
    /\ mprev = maybe
    /\ mcall = NoMCall
    /\ LazyIdle /\ EitherIdle /\ MatchIdle /\ ImmIdle /\ FnIdle

NextMaybe ==
    \/ \E f \in MaybeFns : MMap(f)
    \/ \E f \in MaybeFns : MFlatMap(f)
    \/ MFilter

SpecMaybe == InitMaybe /\ [][NextMaybe]_vars

\* pattern.py: Match(value), then case / default / the three entry points.
InitMatch ==
    /\ mvalue \in {PyInt(0), PyInt(5), PyStr(0)}
    /\ mcases = <<>>
    /\ mdefault = FALSE
    /\ mout = Out("none", "ok", NoResult, <<>>, <<>>)
    /\ LazyIdle /\ EitherIdle /\ MaybeIdle /\ ImmIdle /\ FnIdle

NextMatch ==
    \/ \E pt \in Patterns, c \in BOOLEAN : MCase(pt, c)
    \/ MDefault
    \/ MExecute
    \/ MMatch
    \/ MMatchWithDefault

SpecMatch == InitMatch /\ [][NextMatch]_vars

\* immutable.py: one ImmutableList, or one ImmutableDict, and its mutators.
InitLists == {<<>>, <<1>>, <<2, 1>>, <<3, 1, 2>>}
InitDicts == {<<>>, [k \in {"a"} |-> 1], [k \in Keys |-> IF k = "a" THEN 1 ELSE 2]}

InitImm ==
    /\ \/ /\ \E l \in InitLists : lists = <<l>>
          /\ ils = <<1>> /\ dicts = <<>> /\ ids = <<>>
       \/ /\ \E d \in InitDicts : dicts = <<d>>
          /\ ids = <<1>> /\ lists = <<>> /\ ils = <<>>
    /\ born = lists
    /\ dborn = dicts
    /\ icall = ICall("none", 0, 0, 0)
    /\ LazyIdle /\ EitherIdle /\ MaybeIdle /\ MatchIdle /\ FnIdle

NextImm ==
    \/ \E l \in 1..MaxObjs : LAppend(l, 0)
    \/ \E l \in 1..MaxObjs : LPrepend(l, 4)
    \/ \E l \in 1..MaxObjs, o \in 1..MaxObjs : LConcat(l, o)
    \/ \E l \in 1..MaxObjs : LMap(l, "dbl")
    \/ \E l \in 1..MaxObjs : LFilter(l, "even")
    \/ \E l \in 1..MaxObjs, n \in -1..MaxTake : LTake(l, n)
    \/ \E l \in 1..MaxObjs, n \in -1..MaxTake : LDrop(l, n)
    \/ \E l \in 1..MaxObjs : LReverse(l)
    \/ \E l \in 1..MaxObjs, key \in {"none", "mod2"}, rev \in BOOLEAN : LSort(l, key, rev)
    \/ \E d \in 1..MaxObjs, k \in Keys, v \in {1, 3} : DSet(d, k, v)
    \/ \E d \in 1..MaxObjs, k \in Keys : DDelete(d, k)
    \/ \E d \in 1..MaxObjs, o \in 1..MaxObjs : DUpdate(d, o)

SpecImm == InitImm /\ [][NextImm]_vars

\* compose.py and lazy.py: wrappers made by memoize or by lazy from one fn,
\* and calls of them.
NotFnIdle == LazyIdle /\ EitherIdle /\ MaybeIdle /\ MatchIdle /\ ImmIdle /\ OnceIdle

InitMemo == MemoIdle /\ CurryIdle /\ ComposeIdle /\ NotFnIdle

\* A run wraps one function, with memoize or with lazy.
NextMemo ==
    \/ lcache = <<>> /\ Memoize
    \/ \E w \in 1..MaxWrappers, a \in ArgTuples : MemoizedCall(w, a)
    \/ cache = <<>> /\ Lazy
    \/ \E w \in 1..MaxWrappers, raises \in BOOLEAN : LazyCall(w, raises)

SpecMemo == InitMemo /\ [][NextMemo]_vars

\* compose.py: curried = curry(fn) for a fn of three parameters, and calls
\* of curried and of the closures it returns.
InitCurry ==
    /\ parts = <<<<>>>> /\ pborn = <<<<>>>> /\ chain = <<<<>>>> /\ clog = <<>>
    /\ MemoIdle /\ ComposeIdle /\ NotFnIdle

NextCurry == \E p \in 1..(MaxCurry + 1), more \in MoreArgs : CurriedCall(p, more)

SpecCurry == InitCurry /\ [][NextCurry]_vars

\* compose.py: compose and pipe applied to every list of up to MaxFns
\* functions and every input.
FnLists == UNION {[1..n -> ComposeFns] : n \in 0..MaxFns}

InitCompose ==
    /\ \E names \in FnLists : cfuns = [i \in 1..Len(names) |-> BaseFn(names[i], i)]
    /\ cx \in 0..2
    /\ cout = NoComposeCall
    /\ MemoIdle /\ CurryIdle /\ NotFnIdle

NextCompose == CallCompose \/ CallPipe

SpecCompose == InitCompose /\ [][NextCompose]_vars

====
